---- MODULE Spec2Model ----
(***************************************************************************)
(* EonMentor analysis pipeline: the provider orchestrators (AIService of   *)
(* the shared package, EmbeddedAIService of the standalone worker), the    *)
(* content script's transport (persistent port, one-shot sendMessage,      *)
(* local inline fallback) against the standalone service worker, and the   *)
(* result caches.                                                          *)
(*                                                                         *)
(* A step of the model is one JavaScript task together with the microtasks *)
(* it leaves behind: a listener or timer callback that settles a promise   *)
(* also runs the continuation awaiting it, up to the next await that waits *)
(* for an event.                                                           *)
(*                                                                         *)
(* Specifications:                                                         *)
(*   SpecOrch     the two orchestrators and the settings they read;        *)
(*   Spec         the persistent port with MaxReq concurrent clicks, each  *)
(*                followed until its port promise is settled and the       *)
(*                one-shot request, if any, is issued;                     *)
(*   SpecOneShot  clicks on a page without chrome.runtime.connect, each    *)
(*                followed through safeSendMessage to its tooltip;         *)
(*   SpecClick    MaxClicks clicks followed through both channels, with    *)
(*                texts on both sides of every length threshold;           *)
(*   SpecClickFair  SpecClick with the two timers of a click firing;      *)
(*   SpecCache    the two AdvancedCache classes under MaxCalls calls, two  *)
(*                of them suspended at once, with a clock and a failing    *)
(*                IndexedDB;                                               *)
(*   SpecRemove   the two-tier cache under get, set, delete and clear;     *)
(*   SpecAdvanced the advanced worker's EXPLAIN_TEXT handler over its      *)
(*                memory-only cache, under MaxRequests messages;           *)
(*   SpecAnalyzer analyzeText of the shared AdvancedTextAnalyzer, and the  *)
(*                results the provider methods of the AIService build, on  *)
(*                texts of up to MaxWords words.                           *)
(***************************************************************************)
EXTENDS Integers, Sequences, FiniteSets, Bags, TLC

\* ------------------------------------------------------------------------
\* Bounds of the model
\* ------------------------------------------------------------------------
\* Number of initializeProviders() calls that may be suspended at once.
MaxInits == 1
\* Number of clicks (requests, correlation IDs) one behaviour issues on the
\* persistent port.
MaxReq == 2
\* Number of clicks one behaviour follows through both channels.
MaxClicks == 1
\* Clock readings, and cache calls one behaviour makes.
MaxTime == 1
MaxCalls == 3
\* The capacity the memory tier is checked with (maxMemorySize, 100 in both
\* caches).
MaxMemorySize == 2
\* EXPLAIN_TEXT messages one behaviour of the advanced worker handles.
MaxRequests == 4
\* Words of the generated texts given to the analyzer.
MaxWords == 3

\* ------------------------------------------------------------------------
\* Program constants
\* ------------------------------------------------------------------------
MIN_SELECTION_LENGTH == 8
HOST_MIN_LENGTH == 10
INLINE_MIN_LENGTH == 10
PORT_BACKOFF_FLOOR == 250
maxPortBackoff == 4000
defaultTTL == 3600000
WORKER_DEFAULT_TTL == 3600000
ADVANCED_MIN_LENGTH == 10

\* Texts are represented by their length after trim(); 0 is the empty text.
TextLens == {7, 8, 9, 10}
NoSelection == 0
\* The texts the worker accepts for analysis.
LongTexts == {t \in TextLens : t >= HOST_MIN_LENGTH}

ProviderIds == {"chrome-ai", "openai", "claude", "gemini", "local"}
\* The preferredProvider settings an AIService is constructed with.
PreferredChoices == {"unset", "claude", "local"}
Remote == {"openai", "claude", "gemini"}
BuiltInOrLocal == {"chrome-ai", "local"}

VARIABLES
  \* --- orchestrators (host side) ---
  worker,        \* which worker variant is deployed: "service-worker" uses the
                 \* AIService singleton, "standalone" the EmbeddedAIService
  chromeAI,      \* the host exposes chrome.ai
  storage,       \* chrome.storage.local: credentials and enable_cloud_ai
  aiConfig,      \* AIService.config
  aiProviders,   \* AIService.providers (Map name -> available)
  aiInits,       \* initializeProviders() calls suspended at their await
  aiRun,         \* the AIService.explainFinancialText call in progress
  embConfig,     \* EmbeddedAIService.config
  embRun,        \* the EmbeddedAIService.explainFinancialText call in progress
  \* --- content script (Caller) ---
  currentSelection, \* ui.currentSelection
  port,          \* this.port: "null" or "open"
  linkUp,        \* the Port object is still connected to the worker
  portBackoff,   \* this.portBackoff
  pendingPortRequests, \* keys of this.pendingPortRequests
  timers,        \* correlation IDs whose sendPortMessage timer is armed
  reconnectTimers, \* delays of the scheduled setTimeout(establishPort)
  nextCid,       \* number of clicks that started an analysis
  req,           \* per click: the state of handleButtonClick and its promises
  \* --- channel and standalone worker ---
  hostInbox,     \* port messages the worker is handling
  portReplies,   \* responses posted on the port, not yet delivered
  hostExplained, \* requests for which the worker called explainFinancialText
  portLog,       \* every message the Caller posted on the port
  oneShotLog,    \* every message the Caller sent with chrome.runtime.sendMessage
  \* --- result caches ---
  cacheImpl,     \* the AdvancedCache class in use: "twoTier", "inMemory", "none"
  now,           \* Date.now()
  memoryCache,   \* two-tier cache: this.memoryCache, in insertion order
  db,            \* two-tier cache: this.db, "null" or "open"
  idb,           \* two-tier cache: the object store 'cache'
  opens,         \* indexedDB.open requests under way (0: the constructor's)
  dbQueue,       \* object store requests made and not yet served
  calls,         \* the get()/set() calls suspended at an await
  returned,      \* the call that settled in the last step, if any
  roundTrip,     \* the entry of a set() that ran alone and has just returned
  lastWrite,     \* per key: the value of the latest set() and whether its
                 \* durable write has succeeded
  lastEnforce,   \* the Map before and after the trim of the last step
  workerCache,   \* memory-only cache: this.memoryCache, in insertion order
  nCalls,        \* cache calls made so far
  \* --- AdvancedServiceWorker ---
  advResp,       \* the response to the EXPLAIN_TEXT message handled in the
                 \* last step, if any
  advFirst,      \* per text and level: the result the last completed request
                 \* without forceRefresh returned, and the entry that holds it
  \* --- AdvancedTextAnalyzer (shared package) ---
  anInput,       \* the text given to analyzeText, word by word
  anResult,      \* the AnalysisResult returned, once analyzeText has run
  aiExplanation  \* the AIExplanation a provider method of the AIService has
                 \* built for the same text, if any

orchVars == <<worker, chromeAI, storage, aiConfig, aiProviders, aiInits, aiRun,
              embConfig, embRun>>
callerVars == <<currentSelection, port, linkUp, portBackoff, pendingPortRequests,
                timers, reconnectTimers, nextCid, req>>
hostVars == <<hostInbox, portReplies, hostExplained, portLog, oneShotLog>>
cacheVars == <<cacheImpl, now, memoryCache, db, idb, opens, dbQueue, calls,
               returned, roundTrip, lastWrite, lastEnforce, workerCache, nCalls,
               advResp, advFirst, anInput, anResult, aiExplanation>>
advVars == <<advResp, advFirst>>
analyzerVars == <<anInput, anResult, aiExplanation>>
vars == <<orchVars, callerVars, hostVars, cacheVars>>

\* ------------------------------------------------------------------------
\* Helpers
\* ------------------------------------------------------------------------
Min(a, b) == IF a < b THEN a ELSE b

\* ------------------------------------------------------------------------
\* Shared pieces of the two orchestrators
\* ------------------------------------------------------------------------
\* The fixed order of the fallback chain.
ProviderOrder == <<"chrome-ai", "openai", "claude", "gemini", "local">>

\* Whether a configuration holds a (truthy) credential for a remote provider.
HasKey(cfg, p) ==
  CASE p = "openai" -> cfg.openaiApiKey
    [] p = "claude" -> cfg.claudeApiKey
    [] p = "gemini" -> cfg.geminiApiKey
    [] OTHER -> FALSE

WithKey(cfg, p, k) ==
  CASE p = "openai" -> [cfg EXCEPT !.openaiApiKey = k]
    [] p = "claude" -> [cfg EXCEPT !.claudeApiKey = k]
    [] p = "gemini" -> [cfg EXCEPT !.geminiApiKey = k]
    [] OTHER -> cfg

\* What a provider call can do.  useOpenAI/useClaude/useGemini throw at once
\* without a key; useChromeAI throws when chrome.ai is missing; a call that
\* reaches the provider succeeds with text, succeeds with an empty text, or
\* throws (network, auth, malformed response).  The local analysis is a pure
\* function that always returns a non-empty text.
Outcomes_LocalMayThrow(p, keyed, builtIn) ==
  CASE p = "local" -> {"ok", "fail"}
    [] p = "chrome-ai" -> IF builtIn THEN {"ok", "empty", "fail"} ELSE {"fail"}
    [] OTHER -> IF keyed THEN {"ok", "empty", "fail"} ELSE {"fail"}

Outcomes(p, keyed, builtIn) ==
  CASE p = "local" -> {"ok"}
    [] p = "chrome-ai" -> IF builtIn THEN {"ok", "empty", "fail"} ELSE {"fail"}
    [] OTHER -> IF keyed THEN {"ok", "empty", "fail"} ELSE {"fail"}

AnyKey(cfg) == \E p \in Remote : HasKey(cfg, p)

\* A call of explainFinancialText.  noKeys and cloudOff record, for the whole
\* of the call so far, that no remote credential was configured and that the
\* cloud flag was false; failed lists the providers whose call has thrown.
IdleRun == [pc |-> "idle", queue |-> <<>>, tried |-> <<>>, outcomes |-> {},
            source |-> "none", error |-> "none", noKeys |-> FALSE,
            cloudOff |-> FALSE, failed |-> <<>>]

\* The configuration changed while a call may be in progress.
Observe(run, cfg, cloud) ==
  IF run.pc = "calling"
  THEN [run EXCEPT !.noKeys = @ /\ ~AnyKey(cfg), !.cloudOff = @ /\ ~cloud]
  ELSE run

\* chrome.storage.local written from another context.  In the standalone
\* build that is the settings panel; with the shared AIService a credential
\* reaches the storage through AI_setApiKey, and another context (a second
\* AIService instance, chrome.storage.local.remove) empties or removes it,
\* which reads as falsy.
Storage_SetKey(p, k) ==
  /\ worker = "standalone" \/ (HasKey(storage, p) /\ ~k)
  /\ storage' = WithKey(storage, p, k)
  /\ UNCHANGED <<worker, chromeAI, aiConfig, aiProviders, aiInits, aiRun,
                 embConfig, embRun>>
  /\ UNCHANGED <<callerVars, hostVars, cacheVars>>

\* enable_cloud_ai written by the settings panel.  The EmbeddedAIService sees
\* it when it next loads its configuration; the AIService never reads it.
Storage_SetCloud(b) ==
  /\ storage.enableCloudAI # b
  /\ storage' = [storage EXCEPT !.enableCloudAI = b]
  /\ aiRun' = Observe(aiRun, aiConfig, b)
  /\ UNCHANGED <<worker, chromeAI, aiConfig, aiProviders, aiInits,
                 embConfig, embRun>>
  /\ UNCHANGED <<callerVars, hostVars, cacheVars>>

\* ------------------------------------------------------------------------
\* AIService (packages/shared/src/ai-service.ts)
\* ------------------------------------------------------------------------
\* The table initializeProviders writes once its await has completed.
ProviderTable(cfg, builtIn) ==
  [p \in ProviderIds |->
     CASE p = "chrome-ai" -> builtIn
       [] p = "local" -> TRUE
       [] OTHER -> HasKey(cfg, p)]

AI_InitializeProvidersDone ==
  /\ worker = "service-worker"
  /\ aiInits > 0
  /\ aiInits' = aiInits - 1
  /\ aiProviders' = ProviderTable(aiConfig, chromeAI)
  /\ UNCHANGED <<worker, chromeAI, storage, aiConfig, aiRun, embConfig, embRun>>
  /\ UNCHANGED <<callerVars, hostVars, cacheVars>>

AvailableNames(table) == {p \in DOMAIN table : table[p]}

getProviderPriority_FixedOrderFirst(cfg, table) ==
  LET preferred == IF cfg.preferredProvider = "unset" THEN "chrome-ai"
                   ELSE cfg.preferredProvider
      priority == ProviderOrder \o <<preferred>>
      IsAvailable(p) == p \in AvailableNames(table)
  IN  SelectSeq(priority, IsAvailable)

getProviderPriority(cfg, table) ==
  LET preferred == IF cfg.preferredProvider = "unset" THEN "chrome-ai"
                   ELSE cfg.preferredProvider
      priority == <<preferred>> \o ProviderOrder
      IsAvailable(p) == p \in AvailableNames(table)
  IN  SelectSeq(priority, IsAvailable)

\* callProvider(provider): the call is issued and the run waits for it.
AI_Calling(queue, tried, noKeys, cloudOff) ==
  [pc |-> "calling", queue |-> queue, tried |-> Append(tried, Head(queue)),
   outcomes |-> Outcomes(Head(queue), HasKey(aiConfig, Head(queue)), chromeAI),
   source |-> "none", error |-> "none", noKeys |-> noKeys, cloudOff |-> cloudOff,
   failed |-> <<>>]

AI_explainFinancialText ==
  /\ worker = "service-worker"
  /\ aiRun.pc # "calling"
  /\ LET providers == getProviderPriority(aiConfig, aiProviders)
     IN  aiRun' = IF providers = <<>>
                  THEN [IdleRun EXCEPT !.pc = "threw", !.error = "all-failed",
                                       !.noKeys = ~AnyKey(aiConfig),
                                       !.cloudOff = ~storage.enableCloudAI]
                  ELSE AI_Calling(providers, <<>>, ~AnyKey(aiConfig),
                                  ~storage.enableCloudAI)
  /\ UNCHANGED <<worker, chromeAI, storage, aiConfig, aiProviders, aiInits,
                 embConfig, embRun>>
  /\ UNCHANGED <<callerVars, hostVars, cacheVars>>

\* The awaited provider call settles: a result (any object, even with an
\* empty text) is returned; an error is rethrown when fallbackEnabled is
\* false, and otherwise the loop advances.
AI_AfterProvider(run, o) ==
  IF o \in {"ok", "empty"}
  THEN [run EXCEPT !.pc = "returned", !.source = Head(run.queue),
                   !.outcomes = {o}]
  ELSE IF ~aiConfig.fallbackEnabled
  THEN [run EXCEPT !.pc = "threw", !.error = "provider", !.outcomes = {o},
                   !.failed = Append(@, Head(run.queue))]
  ELSE IF Tail(run.queue) = <<>>
  THEN [run EXCEPT !.pc = "threw", !.error = "all-failed", !.outcomes = {o},
                   !.failed = Append(@, Head(run.queue))]
  ELSE [AI_Calling(Tail(run.queue), run.tried, run.noKeys, run.cloudOff)
          EXCEPT !.failed = Append(run.failed, Head(run.queue))]

AI_ProviderSettles(o) ==
  /\ worker = "service-worker"
  /\ aiRun.pc = "calling"
  /\ o \in aiRun.outcomes
  /\ aiRun' = AI_AfterProvider(aiRun, o)
  /\ UNCHANGED <<worker, chromeAI, storage, aiConfig, aiProviders, aiInits,
                 embConfig, embRun>>
  /\ UNCHANGED <<callerVars, hostVars, cacheVars>>

AI_setApiKey(p, k) ==
  /\ worker = "service-worker"
  /\ aiInits < MaxInits
  /\ aiConfig' = WithKey(aiConfig, p, k)
  /\ storage' = WithKey(storage, p, k)
  /\ aiInits' = aiInits + 1
  /\ aiRun' = Observe(aiRun, aiConfig', FALSE)
  /\ UNCHANGED <<worker, chromeAI, aiProviders, embConfig, embRun>>
  /\ UNCHANGED <<callerVars, hostVars, cacheVars>>

AI_loadApiKeys ==
  /\ worker = "service-worker"
  /\ aiInits < MaxInits
  /\ aiConfig' = [aiConfig EXCEPT
                    !.openaiApiKey = IF storage.openaiApiKey THEN TRUE ELSE @,
                    !.claudeApiKey = IF storage.claudeApiKey THEN TRUE ELSE @,
                    !.geminiApiKey = IF storage.geminiApiKey THEN TRUE ELSE @]
  /\ aiInits' = aiInits + 1
  /\ aiRun' = Observe(aiRun, aiConfig', FALSE)
  /\ UNCHANGED <<worker, chromeAI, storage, aiProviders, embConfig, embRun>>
  /\ UNCHANGED <<callerVars, hostVars, cacheVars>>

\* ------------------------------------------------------------------------
\* EmbeddedAIService (standalone-service-worker.ts)
\* ------------------------------------------------------------------------
Emb_loadApiKeys ==
  /\ worker = "standalone"
  /\ embConfig' = [openaiApiKey |-> storage.openaiApiKey,
                   claudeApiKey |-> storage.claudeApiKey,
                   geminiApiKey |-> storage.geminiApiKey,
                   enableCloudAI |-> storage.enableCloudAI]
  /\ embConfig' # embConfig
  /\ embRun' = Observe(embRun, embConfig', embConfig'.enableCloudAI)
  /\ UNCHANGED <<worker, chromeAI, storage, aiConfig, aiProviders, aiInits,
                 aiRun>>
  /\ UNCHANGED <<callerVars, hostVars, cacheVars>>

\* The first remote provider at or after position i of ProviderOrder that has
\* a key, or "local".
RECURSIVE FirstKeyedFrom(_, _)
FirstKeyedFrom(cfg, i) ==
  IF i >= Len(ProviderOrder) THEN "local"
  ELSE IF HasKey(cfg, ProviderOrder[i]) THEN ProviderOrder[i]
  ELSE FirstKeyedFrom(cfg, i + 1)

PositionOf(p) == CHOOSE i \in 1..Len(ProviderOrder) : ProviderOrder[i] = p

\* The provider explainFinancialText turns to once `after` has thrown or was
\* skipped: the cloud flag is read only on the way out of the chrome-ai step.
Emb_NextProvider(cfg, after) ==
  IF after = "chrome-ai" /\ ~cfg.enableCloudAI THEN "local"
  ELSE FirstKeyedFrom(cfg, PositionOf(after) + 1)

\* Continue the call with provider p: the local analysis returns at once, any
\* other provider is awaited.
Emb_Continue(p, tried, noKeys, cloudOff) ==
  IF p = "local"
  THEN [pc |-> "returned", queue |-> <<p>>, tried |-> Append(tried, p),
        outcomes |-> {"ok"}, source |-> "local", error |-> "none",
        noKeys |-> noKeys, cloudOff |-> cloudOff, failed |-> <<>>]
  ELSE [pc |-> "calling", queue |-> <<p>>, tried |-> Append(tried, p),
        outcomes |-> Outcomes(p, HasKey(embConfig, p), chromeAI),
        source |-> "none", error |-> "none",
        noKeys |-> noKeys, cloudOff |-> cloudOff, failed |-> <<>>]

Emb_explainFinancialText ==
  /\ worker = "standalone"
  /\ embRun.pc # "calling"
  /\ embRun' = Emb_Continue(
                 IF chromeAI THEN "chrome-ai"
                 ELSE Emb_NextProvider(embConfig, "chrome-ai"),
                 <<>>, ~AnyKey(embConfig), ~embConfig.enableCloudAI)
  /\ UNCHANGED <<worker, chromeAI, storage, aiConfig, aiProviders, aiInits,
                 aiRun, embConfig>>
  /\ UNCHANGED <<callerVars, hostVars, cacheVars>>

Emb_AfterProvider(run, o) ==
  IF o \in {"ok", "empty"}
  THEN [run EXCEPT !.pc = "returned", !.source = Head(run.queue),
                   !.outcomes = {o}]
  ELSE [Emb_Continue(Emb_NextProvider(embConfig, Head(run.queue)), run.tried,
                     run.noKeys, run.cloudOff)
          EXCEPT !.failed = Append(run.failed, Head(run.queue))]

Emb_ProviderSettles(o) ==
  /\ worker = "standalone"
  /\ embRun.pc = "calling"
  /\ o \in embRun.outcomes
  /\ embRun' = Emb_AfterProvider(embRun, o)
  /\ UNCHANGED <<worker, chromeAI, storage, aiConfig, aiProviders, aiInits,
                 aiRun, embConfig>>
  /\ UNCHANGED <<callerVars, hostVars, cacheVars>>

\* ------------------------------------------------------------------------
\* Content script: state of one click (handleButtonClick) and its promises
\* ------------------------------------------------------------------------
NoReply == [cid |-> 0, origin |-> 0, kind |-> "none"]

IdleReq ==
  [pc |-> "unused",        \* unused, awaitPort, awaitOneShot, done
   text |-> NoSelection,   \* message.payload.text
   promise |-> "none",     \* sendPortMessage's promise: none, pending, resolved, rejected
   reply |-> NoReply,      \* the value the promise was resolved with
   calls |-> 0,            \* resolve/reject calls made on the promise
   settledBy |-> "none",   \* response, send, timeout, disconnect
   order |-> 0,            \* position among the port responses delivered
   timedOut |-> FALSE,     \* the sendPortMessage timer has fired
   tryNum |-> 0,           \* safeSendMessage: attempt in progress
   oneShot |-> "none",     \* safeSendMessage: none, pending, wait, settled
   sends |-> 0,            \* EXPLAIN_TEXT requests sent with sendMessage
   pings |-> 0,            \* liveness pings issued
   firstError |-> "none",  \* the lastError attempt 1 reported
   result |-> "none",      \* safeSendMessage's value: ok, tooShort, transportError
   raceTimer |-> FALSE,    \* the Promise.race timeout is armed
   tooltip |-> "none",     \* what showTooltip displayed: result, error, local
   localRun |-> FALSE,     \* runLocalInlineAnalysis was called
   lateReply |-> FALSE]    \* a response with this _cid arrived with no entry left

Cids == 1..MaxReq

Delays == {250, 500, 1000, 2000, 4000}

\* handleExplainText of the standalone worker, as seen by the Caller: a text
\* below the worker's minimum is answered with an error before the API keys
\* are loaded or a provider is tried; any other text gets an explanation.
handleExplainText(t) == IF t = NoSelection \/ t < HOST_MIN_LENGTH THEN "tooShort" ELSE "ok"

HostExplains(t) == ~(t = NoSelection \/ t < HOST_MIN_LENGTH)

\* runLocalInlineAnalysis: null for a text under 10 characters, a quick scan
\* result otherwise.
runLocalInlineAnalysis(t) == IF t = NoSelection \/ t < INLINE_MIN_LENGTH THEN "null" ELSE "scan"

\* resolve or reject called on a promise: only the first call takes effect.
Settle(r, outcome, by, reply) ==
  IF r.promise = "pending"
  THEN [r EXCEPT !.promise = outcome, !.settledBy = by, !.reply = reply,
                 !.calls = @ + 1]
  ELSE [r EXCEPT !.calls = @ + 1]

\* The tooltip handleButtonClick shows for a response.
TooltipFor(kind) == IF kind = "ok" THEN "result" ELSE "error"

\* ------------------------------------------------------------------------
\* Content script: selection and UI
\* ------------------------------------------------------------------------
\* handleSelectionChange with a non-collapsed selection of trimmed length t.
handleSelectionChange(t) ==
  /\ t \in TextLens
  /\ currentSelection' = IF t >= MIN_SELECTION_LENGTH THEN t ELSE currentSelection
  /\ currentSelection' # currentSelection
  /\ UNCHANGED <<port, linkUp, portBackoff, pendingPortRequests, timers,
                 reconnectTimers, nextCid, req>>
  /\ UNCHANGED <<orchVars, hostVars, cacheVars>>

\* hideUI: by scroll, resize or one of the hide timeouts.
hideUI ==
  /\ currentSelection # NoSelection
  /\ currentSelection' = NoSelection
  /\ UNCHANGED <<port, linkUp, portBackoff, pendingPortRequests, timers,
                 reconnectTimers, nextCid, req>>
  /\ UNCHANGED <<orchVars, hostVars, cacheVars>>

\* ------------------------------------------------------------------------
\* Content script: one-shot messaging (safeSendMessage)
\* ------------------------------------------------------------------------
SyncOutcomes == {"sent", "threw"}

\* attempt(n): chrome.runtime.sendMessage is called and its callback is
\* awaited (sent), or chrome.runtime is missing or the call throws (threw) and
\* the promise resolves with an error response at once.
Attempt(r, n, sync) ==
  IF sync = "sent"
  THEN [r EXCEPT !.tryNum = n, !.oneShot = "pending", !.sends = @ + 1]
  ELSE [r EXCEPT !.tryNum = n, !.oneShot = "settled", !.result = "transportError"]

\* The EXPLAIN_TEXT requests a step has sent with chrome.runtime.sendMessage.
NewSends(old, new) ==
  {[type |-> "EXPLAIN_TEXT", cid |-> c, text |-> new[c].text, try |-> new[c].tryNum] :
     c \in {d \in Cids : new[d].sends > old[d].sends}}

\* msg.includes('Extension context invalidated') && tryNum === 1
ShouldRetry_AnyTry(msg, tryNum) == msg = "ctxInvalid"

ShouldRetry(msg, tryNum) == msg = "ctxInvalid" /\ tryNum = 1

\* The click resumes after safeSendMessage won the Promise.race: the response
\* is shown, as an error tooltip when it carries an error.
OneShotDone(r) ==
  IF r.pc = "awaitOneShot" /\ r.oneShot = "settled"
  THEN [r EXCEPT !.pc = "done", !.raceTimer = FALSE, !.tooltip = TooltipFor(r.result)]
  ELSE r

\* The click enters `if (!response)`: safeSendMessage races the timeout.
StartOneShot_NoTimeout(r, sync) ==
  OneShotDone([Attempt(r, 1, sync) EXCEPT !.pc = "awaitOneShot"])

StartOneShot(r, sync) ==
  OneShotDone([Attempt(r, 1, sync) EXCEPT !.pc = "awaitOneShot", !.raceTimer = TRUE])

\* What the click does once sendPortMessage's promise was rejected.
AfterPortFailure_ShowError(r, sync) == [r EXCEPT !.pc = "done", !.tooltip = "error"]

AfterPortFailure(r, sync) == StartOneShot(r, sync)

\* The click resumes after `await this.sendPortMessage(message)`, in the
\* microtask that follows the callback which settled the promise.
Resume(r, sync) ==
  IF r.pc = "awaitPort" /\ r.promise = "resolved"
  THEN [r EXCEPT !.pc = "done", !.tooltip = TooltipFor(r.reply.kind)]
  ELSE IF r.pc = "awaitPort" /\ r.promise = "rejected"
       THEN AfterPortFailure(r, sync)
       ELSE r

CallbackOutcomes == {"response", "empty", "ctxInvalid", "otherError"}

\* The value safeSendMessage resolves with when a callback ends the call.
CallbackResult(out, t) == IF out = "response" THEN handleExplainText(t) ELSE "transportError"

\* The sendMessage callback of request c runs: with the worker's response,
\* with no response and no lastError, or with chrome.runtime.lastError set.
\* Before a retry the ping is sent, or its sendMessage throws and the error
\* is swallowed.
OneShotCallback(c, out, ping) ==
  /\ req[c].oneShot = "pending"
  /\ LET r == req[c]
         first == IF r.tryNum = 1 /\ out \in {"ctxInvalid", "otherError"}
                  THEN out ELSE r.firstError
         retry == out \in {"ctxInvalid", "otherError"} /\ ShouldRetry(out, r.tryNum)
     IN  /\ req' = [req EXCEPT ![c] =
                      IF retry
                      THEN [r EXCEPT !.oneShot = "wait", !.firstError = first,
                                     !.pings = @ + 1]
                      ELSE OneShotDone([r EXCEPT !.oneShot = "settled",
                                                 !.firstError = first,
                                                 !.result = CallbackResult(out, r.text)])]
         /\ ~retry => ping = "sent"
         /\ oneShotLog' = oneShotLog \cup
              (IF retry /\ ping = "sent"
               THEN {[type |-> "EONMENTOR_PING", cid |-> c, text |-> NoSelection,
                      try |-> r.tryNum]}
               ELSE {})
         /\ hostExplained' = hostExplained \cup
              (IF out = "response" /\ HostExplains(r.text) THEN {c} ELSE {})
  /\ UNCHANGED <<currentSelection, port, linkUp, portBackoff, pendingPortRequests,
                 timers, reconnectTimers, nextCid>>
  /\ UNCHANGED <<hostInbox, portReplies, portLog>>
  /\ UNCHANGED <<orchVars, cacheVars>>

\* The 150 ms timer of the retry fires: attempt(tryNum + 1).
OneShotRetry(c, sync) ==
  /\ req[c].oneShot = "wait"
  /\ LET nreq == [req EXCEPT ![c] = OneShotDone(Attempt(@, @.tryNum + 1, sync))]
     IN  /\ req' = nreq
         /\ oneShotLog' = oneShotLog \cup NewSends(req, nreq)
  /\ UNCHANGED <<currentSelection, port, linkUp, portBackoff, pendingPortRequests,
                 timers, reconnectTimers, nextCid>>
  /\ UNCHANGED <<hostInbox, portReplies, hostExplained, portLog>>
  /\ UNCHANGED <<orchVars, cacheVars>>

\* The Promise.race timeout fires first: the catch block runs the local
\* inline analysis on ui.currentSelection as it is then.
RaceTimeout(c) ==
  /\ req[c].pc = "awaitOneShot"
  /\ req[c].raceTimer
  /\ req' = [req EXCEPT ![c] =
               [@ EXCEPT !.pc = "done", !.raceTimer = FALSE, !.localRun = TRUE,
                         !.tooltip = IF runLocalInlineAnalysis(currentSelection) = "scan"
                                     THEN "local" ELSE "error"]]
  /\ UNCHANGED <<currentSelection, port, linkUp, portBackoff, pendingPortRequests,
                 timers, reconnectTimers, nextCid>>
  /\ UNCHANGED <<orchVars, hostVars, cacheVars>>

\* ------------------------------------------------------------------------
\* Content script: the persistent port
\* ------------------------------------------------------------------------
\* Math.min(this.portBackoff * 2, this.maxPortBackoff)
NextBackoff_Uncapped(b) == b * 2

NextBackoff(b) == Min(b * 2, maxPortBackoff)

ConnectOutcomes == {"connected", "threw", "unavailable"}

\* establishPort() while this.port is null: chrome.runtime.connect is missing
\* (unavailable), returns a port (connected) or throws.  Gives the new
\* <<port, linkUp, portBackoff, reconnectTimers>>.
establishPort_NoReset(o, backoff, timersNow) ==
  CASE o = "connected" -> <<"open", TRUE, backoff, timersNow>>
    [] o = "threw" -> <<"null", FALSE, NextBackoff(backoff),
                        timersNow (+) SetToBag({backoff})>>
    [] OTHER -> <<"null", FALSE, backoff, timersNow>>

establishPort(o, backoff, timersNow) ==
  CASE o = "connected" -> <<"open", TRUE, PORT_BACKOFF_FLOOR, timersNow>>
    [] o = "threw" -> <<"null", FALSE, NextBackoff(backoff),
                        timersNow (+) SetToBag({backoff})>>
    [] OTHER -> <<"null", FALSE, backoff, timersNow>>

\* A setTimeout(() => this.establishPort(), delay) fires.
ReconnectTimerFires(d, o) ==
  /\ BagIn(d, reconnectTimers)
  /\ LET rest == reconnectTimers (-) SetToBag({d})
         e == establishPort(o, portBackoff, rest)
     IN  IF port = "open"
         THEN /\ o = "connected"
              /\ reconnectTimers' = rest
              /\ UNCHANGED <<port, linkUp, portBackoff>>
         ELSE /\ port' = e[1]
              /\ linkUp' = e[2]
              /\ portBackoff' = e[3]
              /\ reconnectTimers' = e[4]
  /\ UNCHANGED <<currentSelection, pendingPortRequests, timers, nextCid, req>>
  /\ UNCHANGED <<orchVars, hostVars, cacheVars>>

\* The worker is torn down or the channel breaks: the Port object stops
\* working before its onDisconnect listener has run.  What the worker still
\* computes for that port can no longer be posted.
LinkDown ==
  /\ port = "open"
  /\ linkUp
  /\ linkUp' = FALSE
  /\ hostInbox' = {[m EXCEPT !.live = FALSE] : m \in hostInbox}
  /\ UNCHANGED <<currentSelection, port, portBackoff, pendingPortRequests,
                 timers, reconnectTimers, nextCid, req>>
  /\ UNCHANGED <<portReplies, hostExplained, portLog, oneShotLog>>
  /\ UNCHANGED <<orchVars, cacheVars>>

\* The delay of the reconnect the onDisconnect listener schedules.
DisconnectDelay_Doubled == NextBackoff(portBackoff)

DisconnectDelay == portBackoff

\* The entries the onDisconnect listener rejects.
DisconnectRejects_None == {}

DisconnectRejects == pendingPortRequests

\* The entries the loop of the onDisconnect listener deletes from the map.
DisconnectDeletes_None == {}

DisconnectDeletes == pendingPortRequests

\* port.onDisconnect listener, and the clicks its rejections resume.
PortOnDisconnect(sync) ==
  /\ port = "open"
  /\ ~linkUp
  /\ LET nreq == [c \in Cids |->
                    IF c \in DisconnectRejects
                    THEN Resume(Settle(req[c], "rejected", "disconnect", NoReply), sync)
                    ELSE req[c]]
     IN  /\ req' = nreq
         /\ oneShotLog' = oneShotLog \cup NewSends(req, nreq)
  /\ timers' = timers \ pendingPortRequests
  /\ pendingPortRequests' = pendingPortRequests \ DisconnectDeletes
  /\ port' = "null"
  /\ reconnectTimers' = reconnectTimers (+) SetToBag({DisconnectDelay})
  /\ portBackoff' = NextBackoff(portBackoff)
  /\ portReplies' = {}
  /\ UNCHANGED <<currentSelection, linkUp, nextCid>>
  /\ UNCHANGED <<hostInbox, hostExplained, portLog>>
  /\ UNCHANGED <<orchVars, cacheVars>>

\* this.pendingPortRequests.get(msg._cid)
MatchEntry_Oldest(msg, pending) ==
  IF pending = {} THEN {} ELSE {CHOOSE c \in pending : \A d \in pending : c <= d}

MatchEntry(msg, pending) == IF msg.cid \in pending THEN {msg.cid} ELSE {}

\* Messages no request asked for: one without _cid, one whose _cid was never
\* issued.
StrayMessages == {[cid |-> 0, origin |-> 0, kind |-> "ok"],
                  [cid |-> MaxReq + 1, origin |-> 0, kind |-> "ok"]}

\* port.onMessage listener of the content script, and the click it resumes.
PortOnMessage(msg) ==
  /\ msg \in portReplies \cup StrayMessages
  /\ port = "open"
  /\ portReplies' = portReplies \ {msg}
  /\ LET hit == MatchEntry(msg, pendingPortRequests)
         nth == Cardinality({c \in Cids : req[c].order > 0}) + 1
     IN  /\ timers' = timers \ hit
         /\ pendingPortRequests' = pendingPortRequests \ hit
         /\ req' = [c \in Cids |->
                      IF c \in hit
                      THEN Resume([Settle(req[c], "resolved", "response", msg)
                                     EXCEPT !.order = nth], "sent")
                      ELSE IF c = msg.cid
                      THEN [req[c] EXCEPT !.lateReply = TRUE]
                      ELSE req[c]]
  /\ UNCHANGED <<currentSelection, port, linkUp, portBackoff, reconnectTimers,
                 nextCid>>
  /\ UNCHANGED <<hostInbox, hostExplained, portLog, oneShotLog>>
  /\ UNCHANGED <<orchVars, cacheVars>>

\* What the sendPortMessage timer callback does to the pending map.
TimeoutRemoves_Nothing(c) == {}

TimeoutRemoves(c) == {c}

\* The rejection the sendPortMessage timer callback makes.
TimeoutSettle(r) == Settle(r, "rejected", "timeout", NoReply)

\* The messages the sendPortMessage timer callback posts on the port.
TimeoutPosts(c) == {}

\* The sendPortMessage timer of request c fires after ANALYSIS_TIMEOUT, and
\* the click its rejection resumes.
PortTimeout(c, sync) ==
  /\ c \in timers
  /\ timers' = timers \ {c}
  /\ pendingPortRequests' = pendingPortRequests \ TimeoutRemoves(c)
  /\ LET nreq == [req EXCEPT ![c] =
                    Resume([TimeoutSettle(@) EXCEPT !.timedOut = TRUE], sync)]
     IN  /\ req' = nreq
         /\ oneShotLog' = oneShotLog \cup NewSends(req, nreq)
  /\ portLog' = portLog \cup {[type |-> m.type, cid |-> m.cid] : m \in TimeoutPosts(c)}
  /\ hostInbox' = hostInbox \cup (IF linkUp THEN TimeoutPosts(c) ELSE {})
  /\ UNCHANGED <<currentSelection, port, linkUp, portBackoff, reconnectTimers,
                 nextCid>>
  /\ UNCHANGED <<portReplies, hostExplained>>
  /\ UNCHANGED <<orchVars, cacheVars>>

\* ------------------------------------------------------------------------
\* Content script: handleButtonClick
\* ------------------------------------------------------------------------
PortMessage(c, t) == [type |-> "EXPLAIN_TEXT", cid |-> c, text |-> t, live |-> TRUE]

\* sendPortMessage(message) with this.port set: the timer is armed, the entry
\* recorded, and port.postMessage either posts the message or throws.
sendPortMessage(r) ==
  IF linkUp
  THEN [r EXCEPT !.promise = "pending"]
  ELSE Settle([r EXCEPT !.promise = "pending"], "rejected", "send", NoReply)

\* The click up to its first await that waits for an event.
handleButtonClick(sync, conn) ==
  /\ currentSelection # NoSelection
  /\ nextCid < MaxReq
  /\ LET c == nextCid + 1
         r == [IdleReq EXCEPT !.text = currentSelection]
     IN  /\ nextCid' = c
         /\ IF port = "open"
            THEN /\ conn = "connected"
                 /\ linkUp => sync = "sent"
                 /\ LET nreq == [req EXCEPT ![c] =
                                   Resume([sendPortMessage(r) EXCEPT !.pc = "awaitPort"],
                                          sync)]
                    IN  /\ req' = nreq
                        /\ oneShotLog' = oneShotLog \cup NewSends(req, nreq)
                 /\ timers' = timers \cup {c}
                 /\ pendingPortRequests' = pendingPortRequests \cup {c}
                 /\ portLog' = portLog \cup
                      (IF linkUp THEN {[type |-> "EXPLAIN_TEXT", cid |-> c]} ELSE {})
                 /\ hostInbox' = hostInbox \cup
                      (IF linkUp THEN {PortMessage(c, currentSelection)} ELSE {})
                 /\ UNCHANGED <<port, linkUp, portBackoff, reconnectTimers>>
            ELSE /\ LET e == establishPort(conn, portBackoff, reconnectTimers)
                    IN  /\ port' = e[1]
                        /\ linkUp' = e[2]
                        /\ portBackoff' = e[3]
                        /\ reconnectTimers' = e[4]
                 /\ LET nreq == [req EXCEPT ![c] = StartOneShot(r, sync)]
                    IN  /\ req' = nreq
                        /\ oneShotLog' = oneShotLog \cup NewSends(req, nreq)
                 /\ UNCHANGED <<timers, pendingPortRequests, portLog, hostInbox>>
  /\ UNCHANGED <<currentSelection, portReplies, hostExplained>>
  /\ UNCHANGED <<orchVars, cacheVars>>

\* ------------------------------------------------------------------------
\* Standalone worker: the port listener of onConnect
\* ------------------------------------------------------------------------
\* The result caches
\* ------------------------------------------------------------------------
\* Two classes are called AdvancedCache: the two-tier cache of the shared
\* package (a memory Map in front of an IndexedDB object store) and the
\* memory-only cache inside the standalone worker.  cacheImpl says which one
\* the state machine is running.  Time is counted in clock readings; an
\* entry is the record {key, value, expiresAt, lastAccessed} (the fields
\* timestamp and accessCount decide nothing and are left out).  A Map is a
\* sequence in insertion order.  IndexedDB requests are served in the order
\* they were made; one step serves the oldest request and runs the callback
\* and the continuation that wait for it.
\* One key more than the memory tier can hold.
Keys == 1..(MaxMemorySize + 1)
Values == {"v1", "v2"}
\* The ttl arguments; 0 stands for a ttl that is omitted.
TTLs == {0, 1}
\* Two calls may be suspended at once.
CallIds == {1, 2}

NoEntry == [key |-> 0, value |-> "none", expiresAt |-> 0, lastAccessed |-> 0]
NoItem == [key |-> 0, data |-> "none", timestamp |-> 0, ttl |-> 0]

\* Map.get(key): the entry stored under the key, if any.
Lookup(mem, k) ==
  IF \E i \in 1..Len(mem) : mem[i].key = k
  THEN mem[CHOOSE i \in 1..Len(mem) : mem[i].key = k]
  ELSE NoEntry

\* Map.set(key, entry): an existing key keeps its place in the order.
MapSet_KeepOld(mem, e) ==
  IF \E i \in 1..Len(mem) : mem[i].key = e.key THEN mem ELSE Append(mem, e)

MapSet(mem, e) ==
  IF \E i \in 1..Len(mem) : mem[i].key = e.key
  THEN [i \in 1..Len(mem) |-> IF mem[i].key = e.key THEN e ELSE mem[i]]
  ELSE Append(mem, e)

\* isValid(entry)
isValid_Inclusive(e, t) == e.expiresAt >= t

isValid(e, t) == e.expiresAt > t

\* updateAccess(entry)
updateAccess(e, t) == [e EXCEPT !.lastAccessed = t]

\* The entry set() builds.
NewEntry(k, v, ttl, t) ==
  [key |-> k, value |-> v,
   expiresAt |-> t + (IF ttl = 0 THEN defaultTTL ELSE ttl),
   lastAccessed |-> t]

\* First position of the stable ascending sort by lastAccessed.
OldestIndex_Newest(mem) ==
  CHOOSE i \in 1..Len(mem) :
    \A j \in 1..Len(mem) : mem[i].lastAccessed > mem[j].lastAccessed
                           \/ (mem[i].lastAccessed = mem[j].lastAccessed /\ i >= j)

OldestIndex(mem) ==
  CHOOSE i \in 1..Len(mem) :
    \A j \in 1..Len(mem) : mem[i].lastAccessed < mem[j].lastAccessed
                           \/ (mem[i].lastAccessed = mem[j].lastAccessed /\ i <= j)

RemoveAt(mem, i) == SubSeq(mem, 1, i - 1) \o SubSeq(mem, i + 1, Len(mem))

\* The Map once the first n entries of the sorted array are deleted.
RECURSIVE DropOldest(_, _)
DropOldest(mem, n) ==
  IF n = 0 THEN mem ELSE DropOldest(RemoveAt(mem, OldestIndex(mem)), n - 1)

\* getPersistentSize(): 0 without a database, else store.count()
getPersistentSize ==
  IF db = "null" THEN 0 ELSE Cardinality({k \in Keys : idb[k] # NoEntry})

\* enforceMemoryLimit()
enforceMemoryLimit_Off(mem) == mem

enforceMemoryLimit(mem) ==
  IF Len(mem) <= MaxMemorySize THEN mem
  ELSE DropOldest(mem, Len(mem) - MaxMemorySize)

IdleCall ==
  [op |-> "none", pc |-> "idle", key |-> 0, entry |-> NoEntry, at |-> 0,
   startedAt |-> 0, alone |-> FALSE, mem |-> NoEntry, rt |-> NoEntry,
   saw |-> "none", afterDelete |-> FALSE]

NoReturn ==
  [op |-> "none", key |-> 0, result |-> "none", served |-> NoEntry, at |-> 0,
   startedAt |-> 0, mem |-> NoEntry, rt |-> NoEntry, saw |-> "none",
   entry |-> NoEntry, dbError |-> FALSE, afterDelete |-> FALSE]

NoEnforce == [by |-> "none", entry |-> NoEntry, before |-> <<>>, after |-> <<>>]

NoWrite == [value |-> "none", done |-> FALSE]

\* The record of a call that settles: what it gave, the entry it served and
\* the clock reading at which that entry passed isValid.
Return(call, result, served, at) ==
  [op |-> call.op, key |-> call.key, result |-> result, served |-> served,
   at |-> at, startedAt |-> call.startedAt, mem |-> call.mem, rt |-> call.rt,
   saw |-> call.saw, entry |-> call.entry, dbError |-> FALSE,
   afterDelete |-> call.afterDelete]

AllIdle == \A c \in CallIds : calls[c].pc = "idle"
FreeSlot == CHOOSE c \in CallIds : calls[c].pc = "idle" /\
                                   \A d \in CallIds : calls[d].pc = "idle" => c <= d

\* The calls in flight, once another call has started beside them.
Overlapped == [c \in CallIds |-> [calls[c] EXCEPT !.alone = FALSE]]

\* A get(key) call as it starts.
StartGet(k) ==
  [IdleCall EXCEPT !.op = "get", !.key = k, !.startedAt = now,
                   !.mem = Lookup(memoryCache, k),
                   !.rt = IF roundTrip.key = k THEN roundTrip ELSE NoEntry,
                   !.saw = IF lastWrite[k].done THEN lastWrite[k].value ELSE "none",
                   !.afterDelete = (lastWrite[k].value = "deleted")]

DBRequest(c, kind, k, e) == [call |-> c, kind |-> kind, key |-> k, entry |-> e]

\* get(key) up to its first await: a live memory entry is served at once;
\* otherwise the call waits for initDatabase() if this.db is not set, or for
\* the read of getFromDB.
Cache_get(k) ==
  /\ nCalls < MaxCalls
  /\ nCalls' = nCalls + 1
  /\ cacheImpl = "twoTier"
  /\ \E c \in CallIds : calls[c].pc = "idle"
  /\ LET c == FreeSlot
         e == Lookup(memoryCache, k)
         call == StartGet(k)
     IN  IF e # NoEntry /\ isValid(e, now)
         THEN /\ memoryCache' = MapSet(memoryCache, updateAccess(e, now))
              /\ returned' = Return(call, e.value, e, now)
              /\ calls' = Overlapped
              /\ UNCHANGED <<opens, dbQueue>>
         ELSE /\ returned' = NoReturn
              /\ UNCHANGED memoryCache
              /\ IF db = "null"
                 THEN /\ opens' = opens \cup {c}
                      /\ calls' = [Overlapped EXCEPT ![c] = [call EXCEPT !.pc = "init"]]
                      /\ UNCHANGED dbQueue
                 ELSE /\ dbQueue' = Append(dbQueue, DBRequest(c, "get", k, NoEntry))
                      /\ calls' = [Overlapped EXCEPT ![c] = [call EXCEPT !.pc = "read"]]
                      /\ UNCHANGED opens
  /\ roundTrip' = NoEntry
  /\ lastEnforce' = NoEnforce
  /\ UNCHANGED <<cacheImpl, now, db, idb, lastWrite, workerCache>>
  /\ UNCHANGED <<analyzerVars, orchVars, callerVars, hostVars, advVars>>

\* set(key, value, ttl) up to its await: the memory tier is written and
\* trimmed; setInDB returns at once while this.db is not set, and otherwise
\* the call waits for its put.
Cache_set(k, v, ttl) ==
  /\ nCalls < MaxCalls
  /\ nCalls' = nCalls + 1
  /\ cacheImpl = "twoTier"
  /\ \E c \in CallIds : calls[c].pc = "idle"
  /\ LET c == FreeSlot
         entry == NewEntry(k, v, ttl, now)
         inserted == MapSet(memoryCache, entry)
         call == [IdleCall EXCEPT !.op = "set", !.key = k, !.entry = entry,
                                  !.startedAt = now, !.alone = AllIdle]
     IN  /\ memoryCache' = enforceMemoryLimit(inserted)
         /\ lastEnforce' = [by |-> "set", entry |-> entry, before |-> inserted,
                          after |-> memoryCache']
         /\ lastWrite' = [lastWrite EXCEPT ![k] = [value |-> v, done |-> FALSE]]
         /\ IF db = "null"
            THEN /\ returned' = Return(call, "ok", NoEntry, now)
                 /\ roundTrip' = IF AllIdle THEN entry ELSE NoEntry
                 /\ calls' = Overlapped
                 /\ UNCHANGED dbQueue
            ELSE /\ returned' = NoReturn
                 /\ roundTrip' = NoEntry
                 /\ dbQueue' = Append(dbQueue, DBRequest(c, "put", k, entry))
                 /\ calls' = [Overlapped EXCEPT ![c] = [call EXCEPT !.pc = "put"]]
  /\ UNCHANGED <<cacheImpl, now, db, idb, opens, workerCache>>
  /\ UNCHANGED <<analyzerVars, orchVars, callerVars, hostVars, advVars>>

\* cleanupDB: the cursor over the index expiresAt, with upper bound t, deletes
\* every entry that expires at t or before.
cleanupDB(store, t) ==
  [k \in Keys |-> IF store[k] # NoEntry /\ store[k].expiresAt <= t
                  THEN NoEntry ELSE store[k]]

\* The sweep of the memory tier: entries with expiresAt < now are deleted.
SweepMemory(mem, t) == SelectSeq(mem, LAMBDA e : ~(e.expiresAt < t))

\* cleanup() up to its await: the memory tier is swept; cleanupDB returns at
\* once while this.db is not set, and otherwise the call waits for the
\* transaction of the cursor, whose bound is the time of the call.
Cache_cleanup ==
  /\ nCalls < MaxCalls
  /\ nCalls' = nCalls + 1
  /\ cacheImpl = "twoTier"
  /\ \E c \in CallIds : calls[c].pc = "idle"
  /\ LET c == FreeSlot
         call == [IdleCall EXCEPT !.op = "cleanup", !.startedAt = now]
     IN  /\ memoryCache' = SweepMemory(memoryCache, now)
         /\ IF db = "null"
            THEN /\ returned' = Return(call, "ok", NoEntry, now)
                 /\ calls' = Overlapped
                 /\ UNCHANGED dbQueue
            ELSE /\ returned' = NoReturn
                 /\ dbQueue' = Append(dbQueue,
                                      DBRequest(c, "cleanup", 0,
                                                [NoEntry EXCEPT !.expiresAt = now]))
                 /\ calls' = [Overlapped EXCEPT ![c] = [call EXCEPT !.pc = "cleanup"]]
  /\ roundTrip' = NoEntry
  /\ lastEnforce' = NoEnforce
  /\ UNCHANGED <<cacheImpl, now, db, idb, opens, lastWrite, workerCache>>
  /\ UNCHANGED <<analyzerVars, orchVars, callerVars, hostVars, advVars>>

\* The keys a delete or clear request removes.
DeletedKeys(r) == IF r.kind = "clear" THEN Keys ELSE {r.key}

\* store.delete(key) and store.clear().
Without(store, ks) == [k \in Keys |-> IF k \in ks THEN NoEntry ELSE store[k]]

\* this.memoryCache.delete(key) and this.memoryCache.clear().
MemoryWithout(mem, ks) == SelectSeq(mem, LAMBDA e : e.key \notin ks)

\* The latest write of a key, as delete() or clear() begins ("deleting") and
\* as it completes ("deleted") with no set() of the key begun in between.
MarkDeleted(writes, ks, mark) ==
  [k \in Keys |->
     IF k \in ks /\ (mark = "deleting" \/ writes[k].value = "deleting")
     THEN [value |-> mark, done |-> FALSE]
     ELSE writes[k]]

\* delete(key) and clear() up to their await: the memory tier loses the key
\* (every key); deleteFromDB and clearDB return at once while this.db is not
\* set, and otherwise the call waits for its request.
Remove(kind, k) ==
  /\ nCalls' = nCalls + 1
  /\ \E c \in CallIds : calls[c].pc = "idle"
  /\ LET c == FreeSlot
         call == [IdleCall EXCEPT !.op = kind, !.key = k, !.startedAt = now]
         r == DBRequest(c, kind, k, NoEntry)
     IN  /\ memoryCache' = MemoryWithout(memoryCache, DeletedKeys(r))
         /\ IF db = "null"
            THEN /\ returned' = Return(call, "ok", NoEntry, now)
                 /\ lastWrite' = MarkDeleted(lastWrite, DeletedKeys(r), "deleted")
                 /\ calls' = Overlapped
                 /\ UNCHANGED dbQueue
            ELSE /\ returned' = NoReturn
                 /\ lastWrite' = MarkDeleted(lastWrite, DeletedKeys(r), "deleting")
                 /\ dbQueue' = Append(dbQueue, r)
                 /\ calls' = [Overlapped EXCEPT ![c] = [call EXCEPT !.pc = kind]]
  /\ roundTrip' = NoEntry
  /\ lastEnforce' = NoEnforce
  /\ UNCHANGED <<cacheImpl, now, db, idb, opens, workerCache>>
  /\ UNCHANGED <<analyzerVars, orchVars, callerVars, hostVars, advVars>>

Cache_delete(k) ==
  /\ nCalls < MaxCalls
  /\ cacheImpl = "twoTier"
  /\ Remove("delete", k)

Cache_clear ==
  /\ nCalls < MaxCalls
  /\ cacheImpl = "twoTier"
  /\ Remove("clear", 0)

\* An indexedDB.open request of initDatabase() completes: that of the
\* constructor (0), which nothing awaits, or that of a get() waiting in front
\* of its try block.
InitDatabaseDone(c, ok) ==
  /\ UNCHANGED nCalls
  /\ c \in opens
  /\ opens' = opens \ {c}
  /\ db' = IF ok THEN "open" ELSE db
  /\ IF c = 0
     THEN /\ returned' = NoReturn
          /\ UNCHANGED <<calls, dbQueue>>
     ELSE IF ok
          THEN /\ dbQueue' = Append(dbQueue, DBRequest(c, "get", calls[c].key, NoEntry))
               /\ calls' = [calls EXCEPT ![c].pc = "read"]
               /\ returned' = NoReturn
          ELSE /\ returned' = Return(calls[c], "rejected", NoEntry, now)
               /\ calls' = [calls EXCEPT ![c] = IdleCall]
               /\ UNCHANGED dbQueue
  /\ roundTrip' = NoEntry
  /\ lastEnforce' = NoEnforce
  /\ UNCHANGED <<cacheImpl, now, memoryCache, idb, lastWrite, workerCache>>
  /\ UNCHANGED <<analyzerVars, orchVars, callerVars, hostVars, advVars>>

\* The oldest IndexedDB request is served and its callback runs.  A read
\* resumes get() inside its try block: a live entry is promoted, the tier
\* trimmed, the entry touched and written back; anything else gives null.  A
\* put resumes the set() or the get() that waits for it.
DBExecute(ok) ==
  /\ UNCHANGED nCalls
  /\ dbQueue # <<>>
  /\ LET r == Head(dbQueue)
         c == r.call
         found == IF ok THEN idb[r.key] ELSE NoEntry
         inserted == MapSet(memoryCache, found)
         limited == enforceMemoryLimit(inserted)
         touched == updateAccess(found, now)
     IN  IF r.kind = "get"
         THEN /\ UNCHANGED <<idb, lastWrite>>
              /\ roundTrip' = NoEntry
              /\ IF found # NoEntry /\ isValid(found, now)
                 THEN /\ memoryCache' =
                           IF Lookup(limited, r.key) # NoEntry
                           THEN MapSet(limited, touched) ELSE limited
                      /\ lastEnforce' = [by |-> "get", entry |-> found,
                                      before |-> inserted, after |-> limited]
                      /\ dbQueue' = Append(Tail(dbQueue), DBRequest(c, "put", r.key, touched))
                      /\ calls' = [calls EXCEPT ![c].pc = "update",
                                                ![c].entry = touched, ![c].at = now]
                      /\ returned' = NoReturn
                 ELSE /\ returned' = Return(calls[c], "null", NoEntry, now)
                      /\ calls' = [calls EXCEPT ![c] = IdleCall]
                      /\ dbQueue' = Tail(dbQueue)
                      /\ lastEnforce' = NoEnforce
                      /\ UNCHANGED memoryCache
         ELSE IF r.kind \in {"delete", "clear"}
         THEN /\ idb' = IF ok THEN Without(idb, DeletedKeys(r)) ELSE idb
              /\ dbQueue' = Tail(dbQueue)
              /\ calls' = [calls EXCEPT ![c] = IdleCall]
              /\ returned' = [Return(calls[c], "ok", NoEntry, now)
                                EXCEPT !.dbError = ~ok]
              /\ lastWrite' = MarkDeleted(lastWrite, DeletedKeys(r), "deleted")
              /\ roundTrip' = NoEntry
              /\ lastEnforce' = NoEnforce
              /\ UNCHANGED memoryCache
         ELSE IF r.kind = "cleanup"
         THEN /\ idb' = IF ok THEN cleanupDB(idb, r.entry.expiresAt) ELSE idb
              /\ dbQueue' = Tail(dbQueue)
              /\ calls' = [calls EXCEPT ![c] = IdleCall]
              /\ returned' = [Return(calls[c], "ok", NoEntry, now)
                                EXCEPT !.dbError = ~ok]
              /\ roundTrip' = NoEntry
              /\ lastEnforce' = NoEnforce
              /\ UNCHANGED <<memoryCache, lastWrite>>
         ELSE /\ idb' = IF ok THEN [idb EXCEPT ![r.key] = r.entry] ELSE idb
              /\ dbQueue' = Tail(dbQueue)
              /\ calls' = [calls EXCEPT ![c] = IdleCall]
              /\ lastEnforce' = NoEnforce
              /\ UNCHANGED memoryCache
              /\ IF calls[c].op = "set"
                 THEN /\ returned' = [Return(calls[c], "ok", NoEntry, now)
                                        EXCEPT !.dbError = ~ok]
                      /\ roundTrip' = IF calls[c].alone THEN r.entry ELSE NoEntry
                      /\ lastWrite' =
                           IF ok /\ lastWrite[r.key].value = r.entry.value
                           THEN [lastWrite EXCEPT ![r.key].done = TRUE]
                           ELSE lastWrite
                 ELSE /\ returned' =
                           IF ok
                           THEN Return(calls[c], r.entry.value, calls[c].entry,
                                       calls[c].at)
                           ELSE Return(calls[c], "null", NoEntry, now)
                      /\ roundTrip' = NoEntry
                      /\ UNCHANGED lastWrite
  /\ UNCHANGED <<cacheImpl, now, db, opens, workerCache>>
  /\ UNCHANGED <<analyzerVars, orchVars, callerVars, hostVars, advVars>>

\* No response of the advanced worker, no earlier request.
NoAnalysis == [explains |-> "none"]
NoFirst == [done |-> FALSE, data |-> NoAnalysis, timestamp |-> 0, ttl |-> 0]
NoResponse == [kind |-> "none", text |-> "none", level |-> "none",
               forceRefresh |-> FALSE, cached |-> FALSE, analysed |-> FALSE,
               data |-> NoAnalysis, at |-> 0, first |-> NoFirst, held |-> FALSE]

\* Date.now() moves on.
Tick ==
  /\ UNCHANGED nCalls
  /\ cacheImpl # "none"
  /\ now < MaxTime
  /\ now' = now + 1
  /\ roundTrip' = NoEntry
  /\ returned' = NoReturn
  /\ lastEnforce' = NoEnforce
  /\ advResp' = NoResponse
  /\ UNCHANGED <<cacheImpl, memoryCache, db, idb, opens, dbQueue, calls, lastWrite,
                 workerCache, advFirst>>
  /\ UNCHANGED <<analyzerVars, orchVars, callerVars, hostVars>>

\* --- the memory-only cache of the standalone worker ---
WorkerLookup(mem, k) ==
  IF \E i \in 1..Len(mem) : mem[i].key = k
  THEN mem[CHOOSE i \in 1..Len(mem) : mem[i].key = k]
  ELSE NoItem

WorkerMapSet_KeepOld(mem, e) ==
  IF \E i \in 1..Len(mem) : mem[i].key = e.key
  THEN mem
  ELSE Append(mem, e)

WorkerMapSet(mem, e) ==
  IF \E i \in 1..Len(mem) : mem[i].key = e.key
  THEN [i \in 1..Len(mem) |-> IF mem[i].key = e.key THEN e ELSE mem[i]]
  ELSE Append(mem, e)

\* Date.now() - memoryItem.timestamp < memoryItem.ttl
WorkerLive_Shorter(item, t) == t - item.timestamp < item.ttl - 1

WorkerLive(item, t) == t - item.timestamp < item.ttl

\* The item as an entry with its expiry spelled out.
AsEntry(item) ==
  [key |-> item.key, value |-> item.data,
   expiresAt |-> item.timestamp + item.ttl, lastAccessed |-> item.timestamp]

\* The trim of set(): the first key of the Map goes when the Map is too big.
WorkerTrim(mem) == IF Len(mem) > MaxMemorySize THEN Tail(mem) ELSE mem

\* get(key) of the worker's cache
Worker_get(k) ==
  /\ nCalls < MaxCalls
  /\ nCalls' = nCalls + 1
  /\ cacheImpl = "inMemory"
  /\ LET item == WorkerLookup(workerCache, k)
         call == [IdleCall EXCEPT !.op = "get", !.key = k, !.startedAt = now,
                                  !.mem = IF item = NoItem THEN NoEntry
                                          ELSE AsEntry(item)]
     IN  IF item # NoItem /\ WorkerLive(item, now)
         THEN /\ returned' = Return(call, item.data, AsEntry(item), now)
              /\ UNCHANGED workerCache
         ELSE /\ returned' = Return(call, "null", NoEntry, now)
              /\ workerCache' = SelectSeq(workerCache, LAMBDA e : e.key # k)
  /\ UNCHANGED <<cacheImpl, now, memoryCache, db, idb, opens, dbQueue, calls,
                 roundTrip, lastWrite, lastEnforce>>
  /\ UNCHANGED <<analyzerVars, orchVars, callerVars, hostVars, advVars>>

\* set(key, value, ttl) of the worker's cache
Worker_set(k, v, ttl) ==
  /\ nCalls < MaxCalls
  /\ nCalls' = nCalls + 1
  /\ cacheImpl = "inMemory"
  /\ LET item == [key |-> k, data |-> v, timestamp |-> now,
                  ttl |-> IF ttl = 0 THEN WORKER_DEFAULT_TTL ELSE ttl]
         call == [IdleCall EXCEPT !.op = "set", !.key = k, !.startedAt = now]
     IN  /\ workerCache' = WorkerTrim(WorkerMapSet(workerCache, item))
         /\ returned' = Return(call, "ok", NoEntry, now)
  /\ UNCHANGED <<cacheImpl, now, memoryCache, db, idb, opens, dbQueue, calls,
                 roundTrip, lastWrite, lastEnforce>>
  /\ UNCHANGED <<analyzerVars, orchVars, callerVars, hostVars, advVars>>

\* cleanup() of the worker's cache: every item whose ttl has run out goes.
Worker_cleanup ==
  /\ cacheImpl = "inMemory"
  /\ workerCache' = SelectSeq(workerCache, LAMBDA e : ~(now - e.timestamp >= e.ttl))
  /\ returned' = Return([IdleCall EXCEPT !.op = "cleanup", !.startedAt = now],
                        "ok", NoEntry, now)
  /\ UNCHANGED <<cacheImpl, now, memoryCache, db, idb, opens, dbQueue, calls,
                 roundTrip, lastWrite, lastEnforce, nCalls>>
  /\ UNCHANGED <<analyzerVars, orchVars, callerVars, hostVars, advVars>>

\* ------------------------------------------------------------------------
\* AdvancedServiceWorker: EXPLAIN_TEXT over the memory-only cache
\* ------------------------------------------------------------------------
\* The requests made: two spellings of one text, another text, a second
\* level, and a text that is too short.
AdvRequests == {<<"Rates rose 2%", "basic">>, <<" RATES ROSE 2%", "basic">>,
                <<"Bonds fell 1%", "basic">>, <<"Rates rose 2%", "detailed">>,
                <<"Rates up", "basic">>}

\* text.length
TextLength(t) ==
  CASE t = "Rates rose 2%" -> 13
    [] t = " RATES ROSE 2%" -> 14
    [] t = "Bonds fell 1%" -> 13
    [] t = "Rates up" -> 8

\* text.toLowerCase().trim()
toLowerCaseTrim(t) ==
  CASE t = "Rates rose 2%" -> "rates rose 2%"
    [] t = " RATES ROSE 2%" -> "rates rose 2%"
    [] t = "Bonds fell 1%" -> "bonds fell 1%"
    [] t = "Rates up" -> "rates up"

\* simpleHash: the 32-bit rolling hash of the string, in hexadecimal.
simpleHash(str) ==
  CASE str = "rates rose 2%" -> "1d6610e9"
    [] str = "bonds fell 1%" -> "68403d45"
    [] str = "rates up" -> "1938aa48"

generateCacheKey(t, level) == <<"analysis", level, simpleHash(toLowerCaseTrim(t))>>

\* analyzer.analyze(text) and generateAdvancedExplanation: a function of the
\* text as it was sent (the word count and the entity texts are taken from
\* it), which does not depend on the level and cannot throw.
Adv_analyze(t) == [explains |-> t]

\* getCacheTTL: 30 minutes times (1 + confidence).  The texts above hold no
\* term of the analyzer's list, so that their confidence is 0.6 and the ttl
\* 48 minutes; the clock of the model counts in units of that ttl.
getCacheTTL(analysis) == MaxTime

\* Map.has(key)
WorkerHas(mem, k) == \E i \in 1..Len(mem) : mem[i].key = k

AdvIdle ==
  /\ advResp = NoResponse
  /\ advFirst = [r \in AdvRequests |-> NoFirst]

\* handleAdvancedExplainText(text, {forceRefresh, analysisLevel}): the whole
\* handler, both awaits being on promises of async functions that never
\* suspend.
Adv_handleAdvancedExplainText(t, level, force) ==
  /\ cacheImpl = "inMemory"
  /\ nCalls < MaxRequests
  /\ nCalls' = nCalls + 1
  /\ LET key == generateCacheKey(t, level)
         has == WorkerHas(workerCache, key)
         item == WorkerLookup(workerCache, key)
         first == advFirst[<<t, level>>]
         hit == ~force /\ has /\ WorkerLive(item, now)
         afterGet == IF force \/ ~has
                     THEN workerCache
                     ELSE SelectSeq(workerCache, LAMBDA e : e.key # key)
         result == Adv_analyze(t)
         stored == [key |-> key, data |-> result, timestamp |-> now,
                    ttl |-> getCacheTTL(result)]
         resp == [NoResponse EXCEPT
                    !.text = t, !.level = level, !.forceRefresh = force,
                    !.at = now, !.first = first,
                    !.held = /\ has
                             /\ item.data = first.data
                             /\ item.timestamp = first.timestamp
                             /\ item.ttl = first.ttl]
     IN  IF TextLength(t) < ADVANCED_MIN_LENGTH
         THEN /\ advResp' = [resp EXCEPT !.kind = "tooShort"]
              /\ UNCHANGED <<workerCache, advFirst>>
         ELSE IF hit
         THEN /\ advResp' = [resp EXCEPT !.kind = "result", !.cached = TRUE,
                                         !.data = item.data]
              /\ advFirst' = [advFirst EXCEPT ![<<t, level>>] =
                               [done |-> TRUE, data |-> item.data,
                                timestamp |-> item.timestamp, ttl |-> item.ttl]]
              /\ UNCHANGED workerCache
         ELSE /\ advResp' = [resp EXCEPT !.kind = "result", !.analysed = TRUE,
                                         !.data = result]
              /\ workerCache' = WorkerTrim(WorkerMapSet(afterGet, stored))
              /\ advFirst' = IF force THEN advFirst
                             ELSE [advFirst EXCEPT ![<<t, level>>] =
                                     [done |-> TRUE, data |-> result,
                                      timestamp |-> now, ttl |-> stored.ttl]]
  /\ returned' = NoReturn
  /\ lastEnforce' = NoEnforce
  /\ UNCHANGED <<cacheImpl, now, memoryCache, db, idb, opens, dbQueue, calls,
                 roundTrip, lastWrite>>
  /\ UNCHANGED <<analyzerVars, orchVars, callerVars, hostVars>>

\* The CLEAR_CACHE message: cache.clear()
Adv_ClearCache ==
  /\ cacheImpl = "inMemory"
  /\ workerCache # <<>>
  /\ workerCache' = <<>>
  /\ returned' = NoReturn
  /\ lastEnforce' = NoEnforce
  /\ advResp' = NoResponse
  /\ UNCHANGED <<cacheImpl, now, memoryCache, db, idb, opens, dbQueue, calls,
                 roundTrip, lastWrite, nCalls, advFirst>>
  /\ UNCHANGED <<analyzerVars, orchVars, callerVars, hostVars>>

\* ------------------------------------------------------------------------
\* AdvancedTextAnalyzer of the shared package: analyzeText
\* ------------------------------------------------------------------------
\* A text is the sequence of its words, as split at white space.
FedSentence == <<"The", "Federal", "Reserve", "raised", "interest", "rates",
                 "by", "0.25%">>
Vocabulary == {"The", "interest", "rates", "0.25%", "volatility", "portfolio",
               "money"}
AnalyzerTexts ==
  {FedSentence} \cup UNION {[1..n -> Vocabulary] : n \in 1..MaxWords}

\* tokenize, for one word: lower case, dropped ("") when it has at most two
\* characters, is a stop word or is all digits, and stemmed by the first
\* rule of stemWord that matches (ed$ for raised, s$ for rates).
tokenizeWord(w) ==
  CASE w = "The" -> ""
    [] w = "Federal" -> "federal"
    [] w = "Reserve" -> "reserve"
    [] w = "raised" -> "rais"
    [] w = "interest" -> "interest"
    [] w = "rates" -> "rate"
    [] w = "by" -> ""
    [] w = "0.25%" -> "0.25%"
    [] w = "volatility" -> "volatility"
    [] w = "portfolio" -> "portfolio"
    [] w = "money" -> "money"

tokenize(text) ==
  SelectSeq([i \in 1..Len(text) |-> tokenizeWord(text[i])], LAMBDA t : t # "")

Frequency(tokens, term) == Cardinality({i \in 1..Len(tokens) : tokens[i] = term})

FirstIndex(tokens, term) ==
  CHOOSE i \in 1..Len(tokens) :
    tokens[i] = term /\ \A j \in 1..(i - 1) : tokens[j] # term

\* calculateTFIDF: the terms occurring at least twice, by decreasing tf-idf
\* (which grows with the count; the sort keeps equal terms in the order of
\* their first occurrence), the first ten of them.
calculateTFIDF(tokens) ==
  LET kept == {t \in {tokens[i] : i \in 1..Len(tokens)} : Frequency(tokens, t) >= 2}
      sorted == CHOOSE s \in [1..Cardinality(kept) -> kept] :
                  /\ \A t \in kept : \E i \in DOMAIN s : s[i] = t
                  /\ \A i, j \in DOMAIN s :
                       i < j =>
                         \/ Frequency(tokens, s[i]) > Frequency(tokens, s[j])
                         \/ /\ Frequency(tokens, s[i]) = Frequency(tokens, s[j])
                            /\ FirstIndex(tokens, s[i]) < FirstIndex(tokens, s[j])
  IN  SubSeq(sorted, 1, IF Len(sorted) < 10 THEN Len(sorted) ELSE 10)

\* topicMapping, by the first stem the term includes.
topicOf(term) ==
  CASE term = "rate" -> "Interest Rates"
    [] term = "interest" -> "Interest Rates"
    [] OTHER -> "none"

\* extractTopics: the topics of the first five term vectors.
extractTopics(termVectors) ==
  {topicOf(termVectors[i]) :
     i \in 1..(IF Len(termVectors) < 5 THEN Len(termVectors) ELSE 5)} \ {"none"}

\* extractNumericValue of a match, in hundredths.
extractNumericValue(match) == IF match = "0.25%" THEN 25 ELSE 0

\* extractEntities: of the words used here only 0.25% matches a pattern, the
\* percentage one.
extractEntities(text) ==
  LET matches == SelectSeq(text, LAMBDA w : w = "0.25%")
  IN  [i \in 1..Len(matches) |->
         [text |-> matches[i], type |-> "percentage",
          value |-> extractNumericValue(matches[i])]]

\* complexityIndicators, for the tokens of the words used here.
Indicators ==
  [beginner |-> {"money"}, intermediate |-> {"interest", "portfolio"},
   advanced |-> {"volatility"}]

CountIn(tokens, set) == Cardinality({i \in 1..Len(tokens) : tokens[i] \in set})

\* assessComplexity of the analyzer: counts of the tokens found in each set.
Analyzer_assessComplexity(tokens) ==
  IF CountIn(tokens, Indicators.advanced) > 0 THEN "advanced"
  ELSE IF CountIn(tokens, Indicators.intermediate) > CountIn(tokens, Indicators.beginner)
  THEN "intermediate"
  ELSE "beginner"

NoAnalysisResult ==
  [done |-> FALSE, topics |-> {}, entities |-> <<>>, complexity |-> "none"]

analyzeText(text) ==
  [done |-> TRUE,
   topics |-> extractTopics(calculateTFIDF(tokenize(text))),
   entities |-> extractEntities(text),
   complexity |-> Analyzer_assessComplexity(tokenize(text))]

\* lowerText.includes(term) for some term of a list: of the words used here
\* none includes a term without being it.
IncludesAny(text, terms) == \E i \in 1..Len(text) : text[i] \in terms

\* complexTerms and intermediateTerms of AIService.assessComplexity, as far as
\* the words used here go.
complexTerms == {"volatility"}
intermediateTerms == {"portfolio"}

AI_assessComplexity(text) ==
  IF IncludesAny(text, complexTerms) THEN "advanced"
  ELSE IF IncludesAny(text, intermediateTerms) THEN "intermediate"
  ELSE "beginner"

\* performLocalAnalysis: the complexity of the analysis object is a literal.
performLocalAnalysis(text) == [complexity |-> "intermediate"]

NoExplanation == [source |-> "none", complexity |-> "none"]

\* The AIExplanation the provider method of a source returns:
\* useLocalAnalysis takes the complexity of performLocalAnalysis, every other
\* method calls assessComplexity(text).
Explanation(source, text) ==
  [source |-> source,
   complexity |-> IF source = "local" THEN performLocalAnalysis(text).complexity
                  ELSE AI_assessComplexity(text)]

AnalyzerIdle ==
  /\ anInput = <<>>
  /\ anResult = NoAnalysisResult
  /\ aiExplanation = NoExplanation

AI_buildExplanation(source) ==
  /\ anInput # <<>>
  /\ aiExplanation = NoExplanation
  /\ aiExplanation' = Explanation(source, anInput)
  /\ UNCHANGED <<anInput, anResult, orchVars, callerVars, hostVars>>
  /\ UNCHANGED <<cacheImpl, now, memoryCache, db, idb, opens, dbQueue, calls,
                 returned, roundTrip, lastWrite, lastEnforce, workerCache,
                 nCalls, advVars>>

Analyzer_analyzeText ==
  /\ anInput # <<>>
  /\ ~anResult.done
  /\ anResult' = analyzeText(anInput)
  /\ UNCHANGED <<anInput, aiExplanation, orchVars, callerVars, hostVars>>
  /\ UNCHANGED <<cacheImpl, now, memoryCache, db, idb, opens, dbQueue, calls,
                 returned, roundTrip, lastWrite, lastEnforce, workerCache,
                 nCalls, advVars>>

\* The cache variables while no cache is looked at.
CachesIdle ==
  /\ cacheImpl = "none"
  /\ now = 0
  /\ memoryCache = <<>>
  /\ db = "null"
  /\ idb = [k \in Keys |-> NoEntry]
  /\ opens = {}
  /\ dbQueue = <<>>
  /\ calls = [c \in CallIds |-> IdleCall]
  /\ returned = NoReturn
  /\ roundTrip = NoEntry
  /\ lastWrite = [k \in Keys |-> NoWrite]
  /\ lastEnforce = NoEnforce
  /\ workerCache = <<>>
  /\ nCalls = 0
  /\ AdvIdle

CacheIdle == CachesIdle /\ AnalyzerIdle

\* ------------------------------------------------------------------------
\* The worker finishes handleExplainText for a port message and posts the
\* response with the message's _cid; posting on a closed port throws and the
\* response is lost.  Messages of another type are ignored.
HostHandlePort(m) ==
  /\ m \in hostInbox
  /\ hostInbox' = hostInbox \ {m}
  /\ IF m.type = "EXPLAIN_TEXT"
     THEN /\ hostExplained' = hostExplained \cup
                                (IF HostExplains(m.text) THEN {m.cid} ELSE {})
          /\ portReplies' = portReplies \cup
               (IF m.live
                THEN {[cid |-> m.cid, origin |-> m.cid, kind |-> handleExplainText(m.text)]}
                ELSE {})
     ELSE UNCHANGED <<hostExplained, portReplies>>
  /\ UNCHANGED <<portLog, oneShotLog>>
  /\ UNCHANGED <<orchVars, callerVars, cacheVars>>

\* Initial states
\* ------------------------------------------------------------------------
NoKeys == [openaiApiKey |-> FALSE, claudeApiKey |-> FALSE, geminiApiKey |-> FALSE]

CallerInit ==
  /\ currentSelection = NoSelection
  /\ port = "null"
  /\ linkUp = FALSE
  /\ portBackoff = PORT_BACKOFF_FLOOR
  /\ pendingPortRequests = {}
  /\ timers = {}
  /\ reconnectTimers = EmptyBag
  /\ nextCid = 0
  /\ req = [c \in Cids |-> IdleReq]

HostInit ==
  /\ hostInbox = {}
  /\ portReplies = {}
  /\ hostExplained = {}
  /\ portLog = {}
  /\ oneShotLog = {}

\* After construction of the deployed worker's orchestrator: the AIService
\* constructor has started initializeProviders without awaiting it, so the
\* provider table is still empty; the embedded service has no keys loaded.
InitOrch ==
  /\ worker \in {"service-worker", "standalone"}
  /\ chromeAI \in BOOLEAN
  /\ storage = [NoKeys EXCEPT !.openaiApiKey = FALSE] @@ [enableCloudAI |-> FALSE]
  /\ aiConfig \in [openaiApiKey : BOOLEAN, claudeApiKey : {FALSE},
                   geminiApiKey : {FALSE},
                   preferredProvider : PreferredChoices,
                   fallbackEnabled : BOOLEAN]
  /\ (worker = "standalone") =>
       aiConfig = NoKeys @@ [preferredProvider |-> "unset", fallbackEnabled |-> TRUE]
  /\ aiProviders = <<>>
  /\ aiInits = IF worker = "service-worker" THEN 1 ELSE 0
  /\ aiRun = IdleRun
  /\ embConfig = NoKeys @@ [enableCloudAI |-> FALSE]
  /\ embRun = IdleRun
  /\ CallerInit
  /\ HostInit
  /\ CacheIdle

\* After construction of the content script: init() has called
\* establishPort() once; the standalone worker is deployed.
InitPort ==
  /\ worker = "standalone"
  /\ chromeAI = FALSE
  /\ storage = NoKeys @@ [enableCloudAI |-> FALSE]
  /\ aiConfig = NoKeys @@ [preferredProvider |-> "unset", fallbackEnabled |-> TRUE]
  /\ aiProviders = <<>>
  /\ aiInits = 0
  /\ aiRun = IdleRun
  /\ embConfig = NoKeys @@ [enableCloudAI |-> FALSE]
  /\ embRun = IdleRun
  /\ currentSelection = NoSelection
  /\ \E o \in ConnectOutcomes :
       LET e == establishPort(o, PORT_BACKOFF_FLOOR, EmptyBag)
       IN  /\ port = e[1]
           /\ linkUp = e[2]
           /\ portBackoff = e[3]
           /\ reconnectTimers = e[4]
  /\ pendingPortRequests = {}
  /\ timers = {}
  /\ nextCid = 0
  /\ req = [c \in Cids |-> IdleReq]
  /\ HostInit
  /\ CacheIdle

\* The persistent port and the clicks that use it.
NextPort ==
  \/ \E t \in LongTexts : handleSelectionChange(t)
  \/ \E sync \in SyncOutcomes, conn \in ConnectOutcomes : handleButtonClick(sync, conn)
  \/ \E c \in Cids, sync \in SyncOutcomes : PortTimeout(c, sync)
  \/ \E msg \in portReplies \cup StrayMessages : PortOnMessage(msg)
  \/ LinkDown
  \/ \E sync \in SyncOutcomes : PortOnDisconnect(sync)
  \/ \E d \in Delays, o \in ConnectOutcomes : ReconnectTimerFires(d, o)
  \/ \E m \in hostInbox : HostHandlePort(m)

Spec == InitPort /\ [][NextPort]_vars

\* One click followed through both channels to its tooltip.
NextClick ==
  \/ \E t \in TextLens : handleSelectionChange(t)
  \/ hideUI
  \/ nextCid < MaxClicks /\
       \E sync \in SyncOutcomes, conn \in ConnectOutcomes : handleButtonClick(sync, conn)
  \/ \E c \in Cids, sync \in SyncOutcomes : PortTimeout(c, sync)
  \/ \E msg \in portReplies : PortOnMessage(msg)
  \/ LinkDown
  \/ \E sync \in SyncOutcomes : PortOnDisconnect(sync)
  \/ \E d \in Delays, o \in ConnectOutcomes : ReconnectTimerFires(d, o)
  \/ \E c \in Cids, out \in CallbackOutcomes, ping \in SyncOutcomes :
       OneShotCallback(c, out, ping)
  \/ \E c \in Cids, sync \in SyncOutcomes : OneShotRetry(c, sync)
  \/ \E c \in Cids : RaceTimeout(c)
  \/ \E m \in hostInbox : HostHandlePort(m)

SpecClick == InitPort /\ [][NextClick]_vars

\* A page where chrome.runtime.connect is missing: every click goes straight
\* to the one-shot channel.
InitOneShot ==
  /\ InitPort
  /\ port = "null"
  /\ reconnectTimers = EmptyBag

NextOneShot ==
  \/ \E t \in LongTexts : handleSelectionChange(t)
  \/ hideUI
  \/ \E sync \in SyncOutcomes : handleButtonClick(sync, "unavailable")
  \/ \E c \in Cids, out \in CallbackOutcomes, ping \in SyncOutcomes :
       OneShotCallback(c, out, ping)
  \/ \E c \in Cids, sync \in SyncOutcomes : OneShotRetry(c, sync)
  \/ \E c \in Cids : RaceTimeout(c)

SpecOneShot == InitOneShot /\ [][NextOneShot]_vars

NextOrch ==
  \/ \E p \in Remote, k \in BOOLEAN : Storage_SetKey(p, k)
  \/ \E b \in BOOLEAN : Storage_SetCloud(b)
  \/ AI_InitializeProvidersDone
  \/ AI_explainFinancialText
  \/ \E o \in {"ok", "empty", "fail"} : AI_ProviderSettles(o)
  \/ \E p \in Remote, k \in BOOLEAN : AI_setApiKey(p, k)
  \/ AI_loadApiKeys
  \/ Emb_loadApiKeys
  \/ Emb_explainFinancialText
  \/ \E o \in {"ok", "empty", "fail"} : Emb_ProviderSettles(o)

SpecOrch == InitOrch /\ [][NextOrch]_vars

\* An entry a previous session of the worker left in the object store.
Stored == [key |-> 1, value |-> "v1", expiresAt |-> defaultTTL, lastAccessed |-> 0]
\* Another one, stored one clock unit before the session began, to expire
\* as it begins.
Stale == [key |-> 2, value |-> "v2", expiresAt |-> 0, lastAccessed |-> -1]

\* After construction of a cache: the two-tier cache has started
\* initDatabase() without awaiting it and its object store holds what earlier
\* sessions left; the worker's cache is an empty Map.
InitCache ==
  /\ worker = "standalone"
  /\ chromeAI = FALSE
  /\ storage = NoKeys @@ [enableCloudAI |-> FALSE]
  /\ aiConfig = NoKeys @@ [preferredProvider |-> "unset", fallbackEnabled |-> TRUE]
  /\ aiProviders = <<>>
  /\ aiInits = 0
  /\ aiRun = IdleRun
  /\ embConfig = NoKeys @@ [enableCloudAI |-> FALSE]
  /\ embRun = IdleRun
  /\ CallerInit
  /\ HostInit
  /\ cacheImpl \in {"twoTier", "inMemory"}
  /\ now = 0
  /\ memoryCache = <<>>
  /\ db = "null"
  /\ idb \in {[k \in Keys |-> NoEntry],
              [k \in Keys |-> IF k = Stored.key THEN Stored
                              ELSE IF k = Stale.key THEN Stale ELSE NoEntry]}
  /\ (cacheImpl = "inMemory") => idb = [k \in Keys |-> NoEntry]
  /\ opens = IF cacheImpl = "twoTier" THEN {0} ELSE {}
  /\ dbQueue = <<>>
  /\ calls = [c \in CallIds |-> IdleCall]
  /\ returned = NoReturn
  /\ roundTrip = NoEntry
  /\ lastWrite = [k \in Keys |-> NoWrite]
  /\ lastEnforce = NoEnforce
  /\ workerCache = <<>>
  /\ nCalls = 0
  /\ AdvIdle
  /\ AnalyzerIdle

\* The caches under concurrent calls.
NextCache ==
  \/ \E k \in Keys : Cache_get(k)
  \/ \E k \in Keys, v \in Values, ttl \in TTLs : Cache_set(k, v, ttl)
  \/ \E c \in {0} \cup CallIds, ok \in BOOLEAN : InitDatabaseDone(c, ok)
  \/ \E ok \in BOOLEAN : DBExecute(ok)
  \/ Tick
  \/ \E k \in Keys : Worker_get(k)
  \/ \E k \in Keys, v \in Values, ttl \in TTLs : Worker_set(k, v, ttl)
  \/ Cache_cleanup
  \/ Worker_cleanup

SpecCache == InitCache /\ [][NextCache]_vars

\* The two-tier cache under get, set with the default ttl, delete and clear,
\* at one clock reading.
InitRemove ==
  /\ InitCache
  /\ cacheImpl = "twoTier"

NextRemove ==
  \/ \E k \in Keys : Cache_get(k)
  \/ \E k \in Keys, v \in Values : Cache_set(k, v, 0)
  \/ \E k \in Keys : Cache_delete(k)
  \/ Cache_clear
  \/ \E c \in {0} \cup CallIds, ok \in BOOLEAN : InitDatabaseDone(c, ok)
  \/ \E ok \in BOOLEAN : DBExecute(ok)

SpecRemove == InitRemove /\ [][NextRemove]_vars

\* The advanced worker: requests, cache clears and the clock.
InitAdvanced ==
  /\ InitCache
  /\ cacheImpl = "inMemory"

NextAdvanced ==
  \/ \E r \in AdvRequests, force \in BOOLEAN :
       Adv_handleAdvancedExplainText(r[1], r[2], force)
  \/ Adv_ClearCache
  \/ Worker_cleanup
  \/ Tick

SpecAdvanced == InitAdvanced /\ [][NextAdvanced]_vars

\* The analyzer applied to one text.
InitAnalyzer ==
  /\ worker = "standalone"
  /\ chromeAI = FALSE
  /\ storage = NoKeys @@ [enableCloudAI |-> FALSE]
  /\ aiConfig = NoKeys @@ [preferredProvider |-> "unset", fallbackEnabled |-> TRUE]
  /\ aiProviders = <<>>
  /\ aiInits = 0
  /\ aiRun = IdleRun
  /\ embConfig = NoKeys @@ [enableCloudAI |-> FALSE]
  /\ embRun = IdleRun
  /\ CallerInit
  /\ HostInit
  /\ CachesIdle
  /\ anInput \in AnalyzerTexts
  /\ anResult = NoAnalysisResult
  /\ aiExplanation = NoExplanation

NextAnalyzer ==
  \/ Analyzer_analyzeText
  \/ \E source \in ProviderIds : AI_buildExplanation(source)

SpecAnalyzer == InitAnalyzer /\ [][NextAnalyzer]_vars

\* ------------------------------------------------------------------------
\* Properties of the orchestrators (checked under SpecOrch)
\* ------------------------------------------------------------------------
Last(s) == s[Len(s)]

Finished(run) == run.pc \in {"returned", "threw"}

C3_BuiltInOrLocalResult ==
  \A run \in {aiRun, embRun} :
    (Finished(run) /\ (run.cloudOff \/ run.noKeys)) =>
      (run.pc = "returned" /\ run.source \in BuiltInOrLocal)

\* ------------------------------------------------------------------------
\* Properties of the persistent port (checked under Spec)
\* ------------------------------------------------------------------------
Settled(r) == r.promise \in {"resolved", "rejected"}

\* C4: each request sent on the persistent port is settled exactly once.  As
\* long as its promise is pending the request is in the pending map with its
\* timer armed, so that a response, the timer, a disconnect or the send
\* failure settles it; once settled, the outcome, its cause and the value
\* never change, whatever later calls of resolve or reject are made; a
\* resolved promise has had exactly one call, a rejected one at most two.
C4_SettledExactlyOnce ==
  [][\A c \in Cids :
       /\ req'[c].promise = "pending" =>
            (c \in pendingPortRequests' /\ c \in timers' /\ req'[c].calls = 0)
       /\ Settled(req'[c]) =>
            /\ req'[c].calls \in 1..2
            /\ (req'[c].promise = "resolved") = (req'[c].settledBy = "response")
            /\ req'[c].promise = "resolved" => req'[c].calls = 1
       /\ Settled(req[c]) =>
            /\ req'[c].promise = req[c].promise
            /\ req'[c].settledBy = req[c].settledBy
            /\ req'[c].reply = req[c].reply]_vars

\* C4 witness: postMessage threw, which rejected the promise and left the
\* entry and the timer behind; the timer then fired and its reject was the
\* second call, without effect.
C4_Witness ==
  \E c \in Cids :
    /\ req[c].promise = "rejected"
    /\ req[c].settledBy = "send"
    /\ req[c].timedOut
    /\ req[c].calls = 2

\* C5: whatever the order in which the responses of two requests in flight
\* arrive, a promise is resolved only with the response that carries its own
\* correlation ID and was computed for its own request.
C5_ResponsesNeverSwapped ==
  \A c \in Cids :
    req[c].promise = "resolved" =>
      (req[c].reply.cid = c /\ req[c].reply.origin = c)

\* C5 witness: request 2 was sent while request 1 was in flight, its response
\* was delivered first and the response of request 1 second; both promises
\* are resolved.
C5_Witness ==
  /\ req[1].promise = "resolved"
  /\ req[2].promise = "resolved"
  /\ req[2].order = 1
  /\ req[1].order = 2

\* C6: in the step in which a disconnect clears the port handle, every
\* request in the pending map is rejected and removed with its timer, no
\* promise is left pending, and exactly one reconnect is scheduled, after the
\* backoff in force when the disconnect was handled.
C6_DisconnectRejectsAndSchedulesOne ==
  [][(port = "open" /\ port' = "null") =>
       /\ pendingPortRequests' = {}
       /\ \A c \in pendingPortRequests :
            req'[c].promise = "rejected" /\ c \notin timers'
       /\ \A c \in Cids : req'[c].promise # "pending"
       /\ reconnectTimers' = reconnectTimers (+) SetToBag({portBackoff})]_vars

\* C6 witness: two requests were pending when the port disconnected; both
\* were rejected by the disconnect and a reconnect is scheduled.
C6_Witness ==
  /\ port = "null"
  /\ req[1].settledBy = "disconnect"
  /\ req[2].settledBy = "disconnect"
  /\ BagCardinality(reconnectTimers) = 1

\* C7: a request whose timer has fired is rejected and is no longer in the
\* pending map, and the only message the Caller ever posted on the port for
\* it is the request itself: nothing cancels the work of the host.
C7_TimeoutRejectsAndRemoves ==
  /\ \A c \in Cids :
       req[c].timedOut =>
         /\ req[c].promise = "rejected"
         /\ c \notin pendingPortRequests
         /\ c \notin timers
  /\ \A m \in portLog : m.type = "EXPLAIN_TEXT"

\* C7 witness: the timer of a request fired and rejected it while the worker
\* was still handling the request.
C7_Witness ==
  \E c \in Cids :
    /\ req[c].settledBy = "timeout"
    /\ \E m \in hostInbox : m.cid = c /\ m.live

\* C8: a click that found no open port, or whose port request failed, has
\* called the one-shot path with the same message; a click whose port request
\* was answered, or is still waiting, has not.
C8_OneShotIffPortFailed ==
  \A c \in Cids :
    /\ (req[c].pc # "unused" /\ req[c].promise \in {"none", "rejected"}) =>
         /\ req[c].tryNum >= 1
         /\ req[c].sends >= 1 =>
              \E m \in oneShotLog :
                m.type = "EXPLAIN_TEXT" /\ m.cid = c /\ m.text = req[c].text
    /\ req[c].promise \in {"pending", "resolved"} =>
         /\ req[c].tryNum = 0
         /\ \A m \in oneShotLog : m.cid # c

\* C8 witness: one click was answered on the port and used no one-shot
\* request; another was rejected by a disconnect and sent the one-shot
\* request.
C8_Witness ==
  \E c, d \in Cids :
    /\ req[c].promise = "resolved"
    /\ req[c].pc = "done"
    /\ req[d].settledBy = "disconnect"
    /\ req[d].sends = 1

\* ------------------------------------------------------------------------
\* Properties of the one-shot channel (checked under SpecOneShot)
\* ------------------------------------------------------------------------
\* C9: one call of safeSendMessage sends the request at most twice and the
\* ping at most once; a second attempt is made only after the first reported
\* 'Extension context invalidated' and the ping was sent; there is no third
\* attempt, and a call that ended after a failing attempt ended with an error
\* response.
C9_AtMostOneRetry ==
  \A c \in Cids :
    /\ req[c].sends <= 2
    /\ req[c].pings <= 1
    /\ req[c].tryNum <= 2
    /\ req[c].tryNum = 2 => (req[c].firstError = "ctxInvalid" /\ req[c].pings = 1)
    /\ req[c].pings = 1 => req[c].firstError = "ctxInvalid"
    /\ req[c].oneShot = "wait" => req[c].tryNum = 1
    /\ (req[c].oneShot = "settled" /\ req[c].tryNum = 1) =>
         req[c].firstError # "ctxInvalid"
    /\ (req[c].oneShot = "settled" /\ req[c].firstError = "otherError") =>
         (req[c].tryNum = 1 /\ req[c].result = "transportError")

\* C9 witness: the first attempt reported the invalidated context, the ping
\* and the second attempt were sent, and the second attempt failed.
C9_Witness ==
  \E c \in Cids :
    /\ req[c].sends = 2
    /\ req[c].pings = 1
    /\ req[c].oneShot = "settled"
    /\ req[c].result = "transportError"

\* ------------------------------------------------------------------------
\* Properties of a click (checked under SpecClick)
\* ------------------------------------------------------------------------
\* C2 as stated: for a text shorter than the minimum length the worker
\* enforces, no provider is invoked and no message is sent on the port or
\* with sendMessage.
C2_ShortTextContactsNothing ==
  \A c \in Cids :
    (req[c].pc # "unused" /\ req[c].text < HOST_MIN_LENGTH) =>
      /\ c \notin hostExplained
      /\ \A m \in portLog : m.cid # c
      /\ \A m \in oneShotLog : m.cid # c

\* C10 as stated: when the port path and the one-shot path have both failed
\* for a click, the tooltip shows the local inline analysis of its text, and
\* shows an error only if that analysis yields nothing for the text.
C10_LocalFallbackWhenBothFail ==
  \A c \in Cids :
    (/\ req[c].pc = "done"
     /\ req[c].promise # "resolved"
     /\ (req[c].result = "transportError" \/ req[c].localRun)) =>
      \/ req[c].tooltip = "local"
      \/ req[c].tooltip = "error" /\ runLocalInlineAnalysis(req[c].text) = "null"

\* ------------------------------------------------------------------------
\* Claims about the reconnect backoff
\* ------------------------------------------------------------------------
\* The reconnects a step schedules.
Scheduled == reconnectTimers' (-) reconnectTimers

\* A step in which chrome.runtime.connect returned a port.
Connects == port = "null" /\ port' = "open"

\* C11: the backoff stays within [250, 4000] and so does every scheduled
\* reconnect delay; a disconnect or a failed connect schedules its reconnect
\* with the backoff it found and never lowers the backoff, so over
\* consecutive failures the delays are non-decreasing; only a successful
\* connect lowers the backoff.
C11_BackoffBoundedAndMonotone ==
  /\ [](/\ portBackoff >= PORT_BACKOFF_FLOOR
        /\ portBackoff <= maxPortBackoff
        /\ \A d \in BagToSet(reconnectTimers) :
             d >= PORT_BACKOFF_FLOOR /\ d <= maxPortBackoff)
  /\ [][/\ Scheduled # EmptyBag =>
             /\ Scheduled = SetToBag({portBackoff})
             /\ portBackoff' >= portBackoff
             /\ portBackoff' = Min(2 * portBackoff, maxPortBackoff)
        /\ portBackoff' < portBackoff => Connects]_vars

\* C11 witness: after consecutive failed connects the backoff stands at its
\* ceiling, and the reconnect now scheduled has the ceiling as its delay.
C11_Witness ==
  /\ port = "null"
  /\ portBackoff = maxPortBackoff
  /\ reconnectTimers = SetToBag({maxPortBackoff})

\* C12: every step in which a connect succeeds leaves the backoff at 250,
\* the backoff is 250 for as long as the port is held, and the disconnect of
\* a held port schedules its reconnect with a delay of 250.
C12_ConnectResetsBackoff ==
  /\ [](port = "open" => portBackoff = PORT_BACKOFF_FLOOR)
  /\ [][/\ Connects => portBackoff' = PORT_BACKOFF_FLOOR
        /\ (port = "open" /\ port' = "null") =>
             Scheduled = SetToBag({PORT_BACKOFF_FLOOR})]_vars

\* C12 witness: a connect failed and raised the backoff to 500, a click then
\* connected, and the disconnect of that port scheduled a second reconnect
\* with a delay of 250 next to the one the failed connect had left.
C12_Witness ==
  /\ port = "null"
  /\ portBackoff = 2 * PORT_BACKOFF_FLOOR
  /\ CopiesIn(PORT_BACKOFF_FLOOR, reconnectTimers) = 2
  /\ \E c \in Cids : req[c].settledBy = "disconnect"

\* ------------------------------------------------------------------------
\* Claims about the caches
\* ------------------------------------------------------------------------
\* A get() has just settled.
GetReturned == returned.op = "get"

\* C13 as stated: a get(k) that directly follows a set(k, v, ttl) which ran
\* with no other call beside it gives v.
C13_RoundTrip ==
  (GetReturned /\ returned.rt # NoEntry) => returned.result = returned.rt.value

\* C13: a get(k) that directly follows a set(k, v, ttl) which ran with no
\* other call beside it gives v, provided the get starts before the entry's
\* expiresAt: the durable write set() waits for may outlast the ttl.
C13_RoundTripWithinTtl ==
  (/\ GetReturned
   /\ returned.rt # NoEntry
   /\ returned.startedAt < returned.rt.expiresAt) =>
    returned.result = returned.rt.value

\* C13 witness: a set with a ttl of one clock reading went through the
\* durable write and the get that followed it gave its value back.
C13_Witness ==
  /\ GetReturned
  /\ db = "open"
  /\ returned.rt # NoEntry
  /\ returned.rt.expiresAt = returned.startedAt + 1
  /\ idb[returned.key] = returned.rt
  /\ returned.result = returned.rt.value

C15_ExpiredReadRemoves ==
  (/\ GetReturned
   /\ cacheImpl = "twoTier"
   /\ returned.result = "null"
   /\ returned.mem # NoEntry
   /\ returned.startedAt >= returned.mem.expiresAt) =>
    /\ Lookup(memoryCache, returned.key).expiresAt > returned.startedAt
       \/ Lookup(memoryCache, returned.key) = NoEntry
    /\ idb[returned.key].expiresAt > returned.startedAt
       \/ idb[returned.key] = NoEntry
    /\ db = "open" =>
         getPersistentSize =
           Cardinality({k \in Keys : idb[k] # NoEntry /\
                                     (k = returned.key =>
                                        idb[k].expiresAt > returned.startedAt)})

\* C16: in every state, and so whenever an operation has returned, the
\* memory tier of either cache holds no more entries than its capacity.
C16_MemoryTierBounded ==
  /\ Len(memoryCache) <= MaxMemorySize
  /\ Len(workerCache) <= MaxMemorySize

\* C16 witness: an insertion took the memory tier of the two-tier cache over
\* its capacity and the tier stands at its capacity.
C16_Witness ==
  /\ Len(lastEnforce.before) = MaxMemorySize + 1
  /\ Len(memoryCache) = MaxMemorySize

\* C17: when an insertion takes the memory tier over its capacity exactly
\* one entry leaves it, and no entry then in the tier has an older
\* lastAccessed than the one that leaves; the entry set() inserts carries the
\* clock reading of the insertion, and so does a memory entry after a get()
\* that served it.
C17_EvictsLeastRecentlyAccessed ==
  /\ Len(lastEnforce.before) > MaxMemorySize =>
       \E i \in 1..Len(lastEnforce.before) :
         /\ lastEnforce.after = RemoveAt(lastEnforce.before, i)
         /\ \A j \in 1..Len(lastEnforce.before) :
              lastEnforce.before[i].lastAccessed <= lastEnforce.before[j].lastAccessed
  /\ lastEnforce.by = "set" => lastEnforce.entry.lastAccessed = now
  /\ (/\ GetReturned
      /\ cacheImpl = "twoTier"
      /\ returned.mem # NoEntry
      /\ returned.startedAt < returned.mem.expiresAt) =>
       Lookup(memoryCache, returned.key).lastAccessed = now

\* C17 witness: the memory tier was full when a get promoted an entry whose
\* lastAccessed was older than that of the entry inserted before it, and the
\* entry that left was not the first one inserted.
C17_Witness ==
  /\ Len(lastEnforce.before) > MaxMemorySize
  /\ \E i \in 2..Len(lastEnforce.before) :
       /\ lastEnforce.after = RemoveAt(lastEnforce.before, i)
       /\ lastEnforce.before[i].lastAccessed < lastEnforce.before[1].lastAccessed

\* C18: get() never rejects: whatever fails in the durable store, the
\* opening of the database included, get() gives null.
C18_GetNeverRejects == GetReturned => returned.result # "rejected"

\* C19: once set(k, v2) has completed with its durable write done and no
\* later set(k) has begun, a get(k) that starts afterwards and gives a value
\* gives v2, whatever calls ran beside the set.
C19_LastWriterWins ==
  (/\ GetReturned
   /\ cacheImpl = "twoTier"
   /\ returned.saw # "none"
   /\ lastWrite[returned.key].value = returned.saw
   /\ returned.result \in Values) =>
    returned.result = returned.saw

\* ------------------------------------------------------------------------
\* Claims about the order of the fallback chain
\* ------------------------------------------------------------------------
\* The order of attempts with the given provider preferred.
PriorityOrder(preferred) ==
  <<preferred, "chrome-ai", "openai", "claude", "gemini", "local">>

\* s lists entries of ref, in the order of ref, each position used once.
RECURSIVE InOrder(_, _)
InOrder(s, ref) ==
  IF s = <<>> THEN TRUE
  ELSE IF ref = <<>> THEN FALSE
  ELSE IF Head(s) = Head(ref) THEN InOrder(Tail(s), Tail(ref))
  ELSE InOrder(s, Tail(ref))

\* The providers a call has invoked and those it would still turn to.
Attempts(run) ==
  IF run.pc = "calling" THEN run.tried \o Tail(run.queue) ELSE run.tried

\* All of s but its last entry.
Front(s) == IF s = <<>> THEN <<>> ELSE SubSeq(s, 1, Len(s) - 1)

\* The provider a step invokes, if it invokes one.
Invoked(run, next) ==
  IF next.pc = "calling" /\ (run.pc # "calling" \/ next.tried # run.tried)
  THEN {Last(next.tried)} ELSE {}

C21_EachProviderAtMostOnce ==
  \A run \in {aiRun, embRun} :
    \A i, j \in 1..Len(run.tried) : run.tried[i] = run.tried[j] => i = j

\* ------------------------------------------------------------------------
\* handleExplainText of the Analysis Host, after the awaited call of
\* explainFinancialText has settled
\* ------------------------------------------------------------------------
\* The response built from the settled call `run` for a text of length t: a
\* text under the minimum is answered with an error before anything is
\* awaited; a result with a non-empty text becomes the explanation; an empty
\* result and a thrown error both end in handleLocalAnalysis.
HostResponse_Rethrow(t, run) ==
  IF handleExplainText(t) = "tooShort"
  THEN [explanation |-> "none", by |-> "none", error |-> "tooShort"]
  ELSE IF run.pc = "returned" /\ run.outcomes = {"ok"}
  THEN [explanation |-> "text", by |-> run.source, error |-> "none"]
  ELSE IF run.pc = "threw"
  THEN [explanation |-> "none", by |-> "none", error |-> run.error]
  ELSE [explanation |-> "text", by |-> "handleLocalAnalysis", error |-> "none"]

HostResponse(t, run) ==
  IF handleExplainText(t) = "tooShort"
  THEN [explanation |-> "none", by |-> "none", error |-> "tooShort"]
  ELSE IF run.pc = "returned" /\ run.outcomes = {"ok"}
  THEN [explanation |-> "text", by |-> run.source, error |-> "none"]
  ELSE [explanation |-> "text", by |-> "handleLocalAnalysis", error |-> "none"]

\* C22: for every text of at least the minimum length and every settled call
\* of explainFinancialText, the response of handleExplainText carries no
\* error and an explanation that comes from the provider attempted last,
\* when the call returned its non-empty text, or from handleLocalAnalysis,
\* when the call threw or returned an empty text.
C22_NoProviderErrorInResponse ==
  \A run \in {aiRun, embRun} : \A t \in LongTexts :
    Finished(run) =>
      LET r == HostResponse(t, run)
      IN  /\ r.error = "none"
          /\ r.explanation = "text"
          /\ \/ /\ run.pc = "returned"
                /\ run.outcomes = {"ok"}
                /\ r.by = Last(run.tried)
             \/ /\ r.by = "handleLocalAnalysis"
                /\ (run.pc = "threw" \/ run.outcomes = {"empty"})

\* C22 witness: providers failed, the call of AIService threw, and the
\* handler answered with the local analysis.
C22_Witness ==
  /\ aiRun.pc = "threw"
  /\ aiRun.failed # <<>>
  /\ \E t \in LongTexts : HostResponse(t, aiRun).by = "handleLocalAnalysis"

\* ------------------------------------------------------------------------
\* Properties of the advanced worker (checked under SpecAdvanced)
\* ------------------------------------------------------------------------
\* The request just answered repeats, without forceRefresh, a completed
\* request of the same text and level, before the ttl of that result has
\* run out.
RepeatsWithinTtl ==
  /\ advResp.kind = "result"
  /\ ~advResp.forceRefresh
  /\ advResp.first.done
  /\ advResp.at - advResp.first.timestamp < advResp.first.ttl

\* C23 as stated: a second request with the same text and options
\* (forceRefresh false), made after the first has completed and before its
\* ttl runs out, returns the first result with cached:true and does not run
\* the analysis.
C23_SecondRequestServedFromCache ==
  RepeatsWithinTtl =>
    /\ advResp.cached
    /\ ~advResp.analysed
    /\ advResp.data = advResp.first.data

\* C23 amended: the same, provided the entry that held the first result is
\* still in the Map under the request's key when the second request arrives
\* (not evicted, cleared or replaced since); and a response is marked cached
\* exactly when the analysis was not run for it.
C23_ServedFromCacheWhileEntryHeld ==
  /\ advResp.kind = "result" => (advResp.cached <=> ~advResp.analysed)
  /\ (RepeatsWithinTtl /\ advResp.held) =>
       /\ advResp.cached
       /\ ~advResp.analysed
       /\ advResp.data = advResp.first.data

\* C23 witness: a repeated request was served from the cache.
C23_Witness ==
  /\ RepeatsWithinTtl
  /\ advResp.held
  /\ advResp.cached
  /\ advResp.data = [explains |-> advResp.text]

\* ------------------------------------------------------------------------
\* Properties of the analyzer (checked under SpecAnalyzer)
\* ------------------------------------------------------------------------
\* C24: the analysis of "The Federal Reserve raised interest rates by 0.25%"
\* has the entity {text: "0.25%", type: "percentage", value: 0.25} among its
\* entities and an interest-rate topic among its topics.
C24_FedSentenceEntityAndTopic ==
  (anInput = FedSentence /\ anResult.done) =>
    /\ \E i \in 1..Len(anResult.entities) :
         anResult.entities[i] = [text |-> "0.25%", type |-> "percentage", value |-> 25]
    /\ "Interest Rates" \in anResult.topics

\* ------------------------------------------------------------------------
\* The documented fallback chain (checked under SpecOrch)
\* ------------------------------------------------------------------------
\* The chain as documented: chrome-ai, the preferred remote provider, the
\* other remote providers in the order openai, claude, gemini, local.
DocumentedChain(preferred) ==
  <<"chrome-ai">> \o
  (IF preferred \in Remote THEN <<preferred>> ELSE <<>>) \o
  SelectSeq(<<"openai", "claude", "gemini">>, LAMBDA p : p # preferred) \o
  <<"local">>

\* s without the repetitions of an entry.
RECURSIVE FirstOccurrences(_)
FirstOccurrences(s) ==
  IF s = <<>> THEN <<>>
  ELSE LET front == FirstOccurrences(Front(s))
       IN  IF \E i \in 1..Len(front) : front[i] = Last(s)
           THEN front ELSE Append(front, Last(s))

\* C25: the providers of one call are first attempted in the documented
\* order: chrome-ai before the preferred provider, the preferred provider
\* before the other remote providers (openai, claude, gemini), local last.
C25_DocumentedChainOrder ==
  /\ InOrder(FirstOccurrences(aiRun.tried),
             DocumentedChain(aiConfig.preferredProvider))
  /\ InOrder(FirstOccurrences(embRun.tried), DocumentedChain("none"))

\* C26: a call of explainFinancialText does not stop on a provider that
\* returned an empty text: whenever a call has returned, the provider it
\* returned from gave a non-empty text.
C26_EmptyTextAdvances ==
  \A run \in {aiRun, embRun} :
    run.pc = "returned" => run.outcomes # {"empty"}

\* ------------------------------------------------------------------------
\* Messages the port listener drops (checked under Spec)
\* ------------------------------------------------------------------------
\* C27: a message that arrives on the port without _cid, with a _cid that
\* was never issued, or with the _cid of a request that has no entry left
\* (resolved, timed out or rejected by a disconnect) is dropped: no promise
\* is settled or touched, and the pending map, the timers, the port handle,
\* the backoff and the scheduled reconnects stay as they were.
C27_UnmatchedMessageDropped ==
  [][\A msg \in portReplies \cup StrayMessages :
       (PortOnMessage(msg) /\ msg.cid \notin pendingPortRequests) =>
         /\ UNCHANGED <<pendingPortRequests, timers, port, linkUp, portBackoff,
                        reconnectTimers, nextCid, currentSelection>>
         /\ \A c \in Cids :
              req'[c] = [req[c] EXCEPT !.lateReply = req'[c].lateReply]]_vars

\* C27 witness: the response to a request arrived after the request's timer
\* had rejected it and removed its entry.
C27_Witness ==
  \E c \in Cids :
    /\ req[c].lateReply
    /\ req[c].promise = "rejected"
    /\ req[c].settledBy = "timeout"
    /\ c \notin pendingPortRequests

\* ------------------------------------------------------------------------
\* More properties of the caches (checked under SpecCache)
\* ------------------------------------------------------------------------
\* C28: when a set(k, v, ttl) of the two-tier cache has completed without a
\* storage error, the durable tier holds an entry for k with value v.
C28_SetWritesDurableTier ==
  (cacheImpl = "twoTier" /\ returned.op = "set" /\ ~returned.dbError) =>
    /\ idb[returned.key] # NoEntry
    /\ idb[returned.key].value = returned.entry.value

\* C29: when a get(k) that found a live entry in the durable tier only
\* returns its value, the memory tier holds an entry for k.
C29_DurableHitPromoted ==
  (/\ GetReturned
   /\ cacheImpl = "twoTier"
   /\ returned.mem = NoEntry
   /\ returned.result \notin {"null", "rejected"}) =>
    Lookup(memoryCache, returned.key) # NoEntry

\* C30: after a cleanup sweep completes, neither tier holds an entry that had
\* expired before the sweep began (expiresAt < the time of the call), and every
\* entry still to expire (expiresAt > now) that a tier held when the sweep
\* completed its last step is still held by that tier.
C30_SweepPurgesExpiredKeepsLive ==
  [][returned'.op = "cleanup" =>
       /\ \A i \in 1..Len(memoryCache') :
            ~(memoryCache'[i].expiresAt < returned'.startedAt)
       /\ \A k \in Keys :
            idb'[k] # NoEntry => ~(idb'[k].expiresAt < returned'.startedAt)
       /\ \A i \in 1..Len(workerCache') :
            ~(workerCache'[i].timestamp + workerCache'[i].ttl < returned'.startedAt)
       /\ \A i \in 1..Len(memoryCache) :
            memoryCache[i].expiresAt > now'
              => \E j \in 1..Len(memoryCache') : memoryCache'[j] = memoryCache[i]
       /\ \A k \in Keys :
            (idb[k] # NoEntry /\ idb[k].expiresAt > now') => idb'[k] = idb[k]
       /\ \A i \in 1..Len(workerCache) :
            workerCache[i].timestamp + workerCache[i].ttl > now'
              => \E j \in 1..Len(workerCache') : workerCache'[j] = workerCache[i]]_vars

\* The remote providers whose credential the constructor's configuration
\* never carries: this.config holds one only if it was stored as well.
StoredOnly == {"claude", "gemini"}

\* C31: once loadApiKeys has read the storage, this.config holds a credential
\* for a remote provider iff the storage does (a credential removed from the
\* storage is gone); once no setApiKey or loadApiKeys call is in progress,
\* each remote provider is marked available iff this.config holds its
\* credential; and 'local' is marked available in every provider table.
C31_AvailableIffCredentialConfigured ==
  [][/\ AI_loadApiKeys =>
          \A p \in StoredOnly : HasKey(aiConfig', p) <=> HasKey(storage, p)
     /\ (aiInits' = 0 /\ aiProviders' # <<>>) =>
          \A p \in Remote : aiProviders'[p] <=> HasKey(aiConfig', p)
     /\ aiProviders' # <<>> => aiProviders'["local"]]_vars

\* The complexity the tiers call for: advanced with any advanced-tier term,
\* otherwise intermediate with any intermediate-tier term, otherwise beginner.
TierComplexity(words, tiers) ==
  IF \E i \in 1..Len(words) : words[i] \in tiers.advanced THEN "advanced"
  ELSE IF \E i \in 1..Len(words) : words[i] \in tiers.intermediate
  THEN "intermediate"
  ELSE "beginner"

\* C32: for every text and every source the complexity of the result is the
\* one its tiers call for, in an AIExplanation of the AIService (against the
\* term lists of its assessComplexity) and in an AnalysisResult of the
\* analyzer (against its complexityIndicators).
C32_ComplexityByTier ==
  /\ aiExplanation # NoExplanation =>
       aiExplanation.complexity =
         TierComplexity(anInput, [advanced |-> complexTerms,
                                  intermediate |-> intermediateTerms])
  /\ anResult.done =>
       anResult.complexity = TierComplexity(tokenize(anInput), Indicators)

\* C33: every entry of the pending map belongs to a request whose promise is
\* still pending: once a request is resolved or rejected, its entry is out of
\* the map and its timer is no longer armed.
C33_PendingMapHoldsUnsettledOnly ==
  \A c \in Cids :
    /\ c \in pendingPortRequests => req[c].promise = "pending"
    /\ Settled(req[c]) => (c \notin pendingPortRequests /\ c \notin timers)

\* C34: at most one reconnect attempt is scheduled at any time.
C34_AtMostOneReconnectScheduled == BagCardinality(reconnectTimers) <= 1

\* C35: a get(k) that begins after delete(k) or clear() has completed, and
\* returns before any later set(k) begins, gives no value.
C35_NullAfterDelete ==
  (/\ GetReturned
   /\ returned.afterDelete
   /\ lastWrite[returned.key].value = "deleted") =>
    returned.result \notin Values

\* C36: in every step in which the EmbeddedAIService invokes a remote
\* provider (openai, claude, gemini), its cloud flag is true at that moment,
\* whatever configuration reloads happened since the call began.
C36_NoRemoteCallWhileCloudOff ==
  [][(/\ embRun'.pc = "calling"
      /\ (embRun.pc # "calling" \/ embRun'.tried # embRun.tried)
      /\ Last(embRun'.tried) \in Remote) => embConfig'.enableCloudAI]_vars

\* The timers of a page that stays open fire: the timer of sendPortMessage
\* and the timer raced against safeSendMessage.  Nothing else is assumed:
\* the worker may never answer and a sendMessage callback may never run.
SpecClickFair ==
  /\ SpecClick
  /\ \A c \in Cids :
       /\ WF_vars(\E sync \in SyncOutcomes : PortTimeout(c, sync))
       /\ WF_vars(RaceTimeout(c))

\* C37: every click that starts an analysis ends with a tooltip (the result,
\* an error or the local fallback), whatever the port and the one-shot
\* channel do; a tooltip is shown for a click only as it ends, and the click
\* and its tooltip then stay as they are.
C37_EveryClickEndsWithOneTooltip ==
  /\ \A c \in Cids :
       (req[c].pc \in {"awaitPort", "awaitOneShot"}) ~>
         (req[c].pc = "done" /\ req[c].tooltip # "none")
  /\ [](\A c \in Cids : (req[c].tooltip # "none") <=> (req[c].pc = "done"))
  /\ [][\A c \in Cids :
          req[c].pc = "done" =>
            (req'[c].pc = "done" /\ req'[c].tooltip = req[c].tooltip)]_vars

\* C37 witness: the port request timed out, the one-shot request got no
\* callback at all, and the click ended with the local fallback.
C37_Witness ==
  \E c \in Cids :
    /\ req[c].timedOut
    /\ req[c].oneShot = "pending"
    /\ req[c].pc = "done"
    /\ req[c].tooltip = "local"

\* The step handles an EXPLAIN_TEXT message of the advanced worker and
\* answers it with a result.
AdvAnswers == nCalls' = nCalls + 1 /\ advResp'.kind = "result"

AdvKey(resp) == generateCacheKey(resp.text, resp.level)

\* C38: a request with forceRefresh never answers cached: the analysis is
\* run again and, when the request returns, the cache holds for its key an
\* entry with that result, written by this request; and a request without
\* forceRefresh that finds a live entry for its key answers with the data of
\* that entry, so the request following a refresh gets the refreshed result.
C38_ForceRefreshReplacesEntry ==
  [][/\ (AdvAnswers /\ advResp'.forceRefresh) =>
          /\ ~advResp'.cached
          /\ advResp'.analysed
          /\ WorkerHas(workerCache', AdvKey(advResp'))
          /\ WorkerLookup(workerCache', AdvKey(advResp')) =
               [key |-> AdvKey(advResp'), data |-> advResp'.data,
                timestamp |-> now', ttl |-> getCacheTTL(advResp'.data)]
     /\ (/\ AdvAnswers
         /\ ~advResp'.forceRefresh
         /\ WorkerHas(workerCache, AdvKey(advResp'))
         /\ WorkerLive(WorkerLookup(workerCache, AdvKey(advResp')), now)) =>
          /\ advResp'.cached
          /\ advResp'.data = WorkerLookup(workerCache, AdvKey(advResp')).data]_vars

\* C38 witness: a text was analysed and cached, the clock moved on, and a
\* request with forceRefresh for the same text has just been answered while
\* the older entry was still held.
C38_Witness ==
  /\ advResp.kind = "result"
  /\ advResp.forceRefresh
  /\ advResp.first.done
  /\ advResp.held
  /\ advResp.at > advResp.first.timestamp

\* C39: whenever the Caller holds no port, its pending map is empty.
C39_NoPortNoPending == port = "null" => pendingPortRequests = {}

\* C39 witness: a disconnect has just emptied a pending map that held a
\* request, rejecting it, and cleared the port handle.
C39_Witness ==
  /\ port = "null"
  /\ pendingPortRequests = {}
  /\ \E c \in Cids : req[c].settledBy = "disconnect"

====
